---- MODULE Spec2Model ----
(***************************************************************************)
(* Mycelix-Music: the chain-event indexer (apps/api-rust/src/services/     *)
(* indexer.rs), the play-accrual / settlement-batch zome                   *)
(* (dnas/mycelix-music/zomes/plays) and the CDN reputation and the trust   *)
(* claims of the trust zome (dnas/mycelix-music/zomes/trust), and the      *)
(* accounts of the balances zome (dnas/mycelix-music/zomes/balances).      *)
(*                                                                         *)
(* Spec        the indexer task with process crash and restart             *)
(* LiveSpec    one run of the indexer task under the scheduler's fairness  *)
(* PlaysSpec   one listener's cell of the plays zome                       *)
(* SettleSpec  PlaysSpec with the settlement of batches on the ledger      *)
(* PriceSpec   one record_play call over the range of its inputs           *)
(* MerkleSpec  compute_merkle_root over the sequences of play hashes       *)
(* TrustSpec   CDN nodes and the quality reports on them                   *)
(* ScoreSpec   the score of update_cdn_reputation over counts and latency  *)
(* ClaimsSpec  agents creating and revoking trust claims                   *)
(* TierSpec    recompute_verification over the confidences of the claims   *)
(* BatchSpec   one create_entry of a SettlementBatch over the entries      *)
(* BalancesSpec  accounts, deposits and transfers of the balances zome     *)
(***************************************************************************)
EXTENDS Integers, Sequences, FiniteSets, TLC

\* ------------------------------------------------------------------ bounds
\* Highest chain height the ledger node reports.
MaxHeight == 7
\* Highest reading of the database clock NOW().
MaxTime == 1
\* Number of times the process dies and is started again.
MaxCrashes == 1
\* Number of PlayRecord entries on the listener's source chain.
MaxPlays == 3
\* Number of SettlementBatch entries on the listener's source chain.
MaxBatches == 2
\* Highest duration_listened of the record_play call of PriceSpec.
MaxListened == 61
\* Highest number of play hashes handed to compute_merkle_root, and the
\* number of distinct play hashes.
MaxLeaves == 4
MaxHash == 3
\* Number of ServiceQualityReport entries.
MaxReports == 2
\* Highest number of requests counted by the reputation of ScoreSpec.
MaxRequests == 12
\* Number of TrustClaim records (creates and updates) on the trust DHT.
MaxClaims == 4
\* Highest number of claims of one confidence in the inputs of TierSpec.
MaxVouches == 11
\* Number of Deposit entries and of Transfer entries on the balances DHT.
MaxDeposits == 1
MaxTransfers == 2

\* --------------------------------------------------------------- constants
\* IndexerConfig.confirmations as main.rs sets it.
Confirmations == 3
\* IndexerConfig.start_block (INDEXER_START_BLOCK unset).
StartBlock == 0
\* The literal 1000 of `from_block + 1000`, scaled to 2 so that the cap on
\* the window takes effect below MaxHeight.
MAX_WINDOW == 2
\* The u64 and i64 of the balances zome scaled to 4 bits: U64_MODULUS stands
\* for 2^64, so that a u64 is 0..15 and an i64 is -8..7.
U64_MODULUS == 16

\* event_signatures::PAYMENT_PROCESSED and ::SONG_REGISTERED; any other
\* topic-0 is "other"; a log without topics has topic0 = "none".
PAYMENT_PROCESSED == "PaymentProcessed"
SONG_REGISTERED == "SongRegistered"

VARIABLES
    \* the height the ledger node last reported, the database clock NOW() as
    \* last read
    height, now,
    \* EventIndexer (in memory)
    last_indexed_block,
    \* the database: tables indexed_events, payments, songs
    indexed_events, payments, songs,
    \* the indexer task: position in run()/index_new_blocks() and its locals
    pc, current_block, from_block, to_block, logs, event_count, ret,
    \* number of index_new_blocks() invocations that have not returned
    in_progress,
    \* number of process crashes so far
    crashes,
    \* history of the latest cycle: a call to the ledger node failed in it
    rpc_failed

ixvars == <<height, now, last_indexed_block, indexed_events, payments, songs,
            pc, current_block, from_block, to_block, logs, event_count, ret,
            in_progress, crashes, rpc_failed>>

VARIABLES
    \* the listener's cell: PlayRecord and SettlementBatch entries in the order
    \* they were committed (an entry's action hash is its position)
    plays, batches,
    \* links ListenerToPlays (targets, in order), ArtistToSettlements and
    \* PlayToSettlement (base, target)
    listener_to_plays, artist_to_settlements, play_to_settlement,
    \* the create_settlement_batch call in flight: its position and locals
    csb,
    \* what the latest zome call returned: "none", "ok" or the error message
    zome_ret

plvars == <<plays, batches, listener_to_plays, artist_to_settlements,
            play_to_settlement, csb, zome_ret>>

VARIABLES
    \* one record_play call followed from its input to its return
    price_call,
    \* one compute_merkle_root call: its argument and its result
    merkle_call,
    \* the score computation of one update_cdn_reputation call: the counts
    \* and the latency it works on, and its results
    score_call,
    \* the tier computation of one recompute_verification call
    tier_call,
    \* one create_entry of a SettlementBatch: the entry and the result
    batch_call

fnvars == <<price_call, merkle_call, score_call, tier_call, batch_call>>

VARIABLES
    \* the trust DHT: CdnNodeReputation entries (every version, in the order
    \* committed; an entry's action hash is its position) and
    \* ServiceQualityReport entries
    reputation_entries, quality_reports,
    \* links NodeToReputation under cdn_node/{node} (targets, in order)
    node_to_reputation,
    \* the submit_quality_report call of each reporter: its position, its
    \* input and the reputation it read; and what its latest call returned
    sqr, sqr_ret

trvars == <<reputation_entries, quality_reports, node_to_reputation, sqr, sqr_ret>>

VARIABLES
    \* the trust DHT: TrustClaim records (every create and update, in the
    \* order committed; a record's action hash is its position) and
    \* VerificationStatus entries
    trust_claims, verification_entries,
    \* links AgentToClaimsReceived under claims_received/{agent} and
    \* AgentToVerification under verification/{agent} (targets, in order)
    claims_received, agent_to_verification,
    \* the latest create_trust_claim or revoke_trust_claim call and its result
    claim_call

clvars == <<trust_claims, verification_entries, claims_received,
            agent_to_verification, claim_call>>

VARIABLES
    \* the balances DHT: the account get_listener_account and
    \* get_artist_account return for each agent (the target of the last
    \* link under listener_account/{agent} and artist_account/{agent}), as
    \* a sequence that is empty for None
    listener_accounts, artist_accounts,
    \* the Deposit and Transfer entries, in the order committed
    deposits, transfers,
    \* the latest call of the balances zome and its result
    balance_call

blvars == <<listener_accounts, artist_accounts, deposits, transfers, balance_call>>

vars == <<ixvars, plvars, fnvars, trvars, clvars, blvars>>

not_indexer == <<plvars, fnvars, trvars, clvars, blvars>>
not_plays == <<ixvars, fnvars, trvars, clvars, blvars>>
not_trust == <<ixvars, plvars, fnvars, clvars, blvars>>
not_claims == <<ixvars, plvars, fnvars, trvars, blvars>>
not_balances == <<ixvars, plvars, fnvars, trvars, clvars>>

\* ------------------------------------------------------------- the ledger
\* The logs the router contract emitted, by block. Transaction 1 emits two
\* PaymentProcessed logs; block 3 holds a log of an unknown event and a log
\* without topics; song 1 is registered in block 2; block 4 holds a
\* PaymentProcessed log with the signature as its only topic and no data.
\* topics is the number of topics of the log and data_len the length of its
\* data in bytes; song_id, amount and strategy_id are what topics 1 and 2 and
\* the first word of the data hold when they are there.
ChainLogs == {
    [block_number |-> 1, tx_hash |-> 1, log_index |-> 0, topic0 |-> PAYMENT_PROCESSED,
     topics |-> 3, data_len |-> 64, song_id |-> 1, amount |-> 5, strategy_id |-> 0],
    [block_number |-> 1, tx_hash |-> 1, log_index |-> 1, topic0 |-> PAYMENT_PROCESSED,
     topics |-> 3, data_len |-> 64, song_id |-> 2, amount |-> 7, strategy_id |-> 0],
    [block_number |-> 2, tx_hash |-> 2, log_index |-> 0, topic0 |-> SONG_REGISTERED,
     topics |-> 4, data_len |-> 0, song_id |-> 1, amount |-> 0, strategy_id |-> 1],
    [block_number |-> 3, tx_hash |-> 3, log_index |-> 0, topic0 |-> "other",
     topics |-> 1, data_len |-> 0, song_id |-> 0, amount |-> 0, strategy_id |-> 0],
    [block_number |-> 3, tx_hash |-> 3, log_index |-> 1, topic0 |-> "none",
     topics |-> 0, data_len |-> 0, song_id |-> 0, amount |-> 0, strategy_id |-> 0],
    [block_number |-> 4, tx_hash |-> 4, log_index |-> 0, topic0 |-> PAYMENT_PROCESSED,
     topics |-> 1, data_len |-> 0, song_id |-> 0, amount |-> 0, strategy_id |-> 0] }

\* Rows of table songs that the upload route created before the indexer ran.
SongIds == {1}

\* block.timestamp of a block.
BlockTimestamp(b) == 100 + b

Min(a, b) == IF a <= b THEN a ELSE b

\* u64::saturating_sub
SaturatingSub(a, b) == IF a >= b THEN a - b ELSE 0

\* Position of a log in the chain: get_logs returns logs in this order.
LogPos(l) == l.block_number * 10 + l.log_index

RECURSIVE SortLogs(_)
SortLogs(S) ==
    IF S = {} THEN <<>>
    ELSE LET first == CHOOSE l \in S : \A m \in S : LogPos(l) <= LogPos(m)
         IN  <<first>> \o SortLogs(S \ {first})

\* provider.get_logs(filter) for the window [from, to].
GetLogsResult(from, to) ==
    SortLogs({l \in ChainLogs : l.block_number >= from /\ l.block_number <= to})

\* ------------------------------------------------------------ index_new_blocks
SafeBlockNoConfirmations(current) == current

\* safe_block = current_block.saturating_sub(confirmations)
SafeBlock(current) == SaturatingSub(current, Confirmations)

\* to_block = min(safe_block, from_block + 1000)
ToBlock(safe, from) == Min(safe, from + MAX_WINDOW)

\* log.topics.get(1).map(|h| h.0).unwrap_or_default()
topic_song_id(l) == IF l.topics > 1 THEN l.song_id ELSE 0

\* log.topics.get(2).map(|h| h.0).unwrap_or_default() of a SongRegistered log
topic_strategy_id(l) == IF l.topics > 2 THEN l.strategy_id ELSE 0

\* if data.len() >= 32 { U256::from_big_endian(&data[0..32]) } else { U256::zero() }
data_amount(l) == IF l.data_len >= 32 THEN l.amount ELSE 0

\* The row process_payment_event binds to its INSERT.
PaymentRow(l, timestamp) ==
    [tx_hash |-> l.tx_hash, block_number |-> l.block_number, song_id |-> topic_song_id(l),
     amount_wei |-> data_amount(l), timestamp |-> timestamp]

HasTx(table, tx) == \E i \in 1..Len(table) : table[i].tx_hash = tx

InsertPaymentNoConflictClause(table, row) == Append(table, row)

\* INSERT INTO payments ... ON CONFLICT (tx_hash) DO NOTHING
InsertPayment(table, row) ==
    IF HasTx(table, row.tx_hash) THEN table ELSE Append(table, row)

\* UPDATE songs SET ..., updated_at = NOW() WHERE song_id = $4
UpdateSong(table, l, t) ==
    [s \in DOMAIN table |->
        IF s = topic_song_id(l)
        THEN [strategy_id |-> topic_strategy_id(l), registered_on_chain |-> TRUE,
              registration_tx |-> l.tx_hash, registration_block |-> l.block_number,
              updated_at |-> t]
        ELSE table[s]]

Ok(count) == [ok |-> TRUE, count |-> count]
Err == [ok |-> FALSE, count |-> 0]
NoResult == [ok |-> TRUE, count |-> -1]

RunLoopExitsOnError(r) == IF r.ok THEN "idle" ELSE "exited"

\* run(): both arms of the match fall through to sleep() and the next
\* iteration of the loop.
RunLoop(r) == "idle"

CanStartCycleOnTimer == pc \in {"idle", "get_logs", "process", "save"}

\* run() calls index_new_blocks() only from the top of its loop, after the
\* previous call returned and the sleep elapsed.
CanStartCycle == pc = "idle"

\* index_new_blocks returns r: back in run().
Return(r) ==
    /\ ret' = r
    /\ pc' = RunLoop(r)
    /\ in_progress' = in_progress - 1
    /\ current_block' = 0
    /\ from_block' = 0
    /\ to_block' = 0
    /\ logs' = <<>>
    /\ event_count' = 0

\* Lines 134-142: provider.get_block_number(), the no-op test, the window.
\* The node reports a height h that is at least the one it reported before.
GetBlockNumber ==
    /\ UNCHANGED not_indexer
    /\ CanStartCycle
    /\ \/ \* get_block_number() fails: `?` returns the error
          /\ rpc_failed' = TRUE
          /\ ret' = Err
          /\ pc' = RunLoop(Err)
          /\ UNCHANGED <<height, in_progress, current_block, from_block, to_block, logs,
                         event_count>>
       \/ \E h \in height..MaxHeight :
          /\ height' = h
          /\ rpc_failed' = FALSE
          /\ IF SafeBlock(h) <= last_indexed_block
             THEN /\ ret' = Ok(0)
                  /\ pc' = RunLoop(Ok(0))
                  /\ UNCHANGED <<in_progress, current_block, from_block, to_block, logs,
                                 event_count>>
             ELSE /\ current_block' = h
                  /\ from_block' = last_indexed_block + 1
                  /\ to_block' = ToBlock(SafeBlock(h), last_indexed_block + 1)
                  /\ pc' = "get_logs"
                  /\ in_progress' = in_progress + 1
                  /\ event_count' = 0
                  /\ UNCHANGED <<ret, logs>>
    /\ UNCHANGED <<now, last_indexed_block, indexed_events, payments, songs, crashes>>

\* Line 151: provider.get_logs(&filter).await?
GetLogs ==
    /\ UNCHANGED not_indexer
    /\ pc = "get_logs"
    /\ \/ /\ rpc_failed' = TRUE
          /\ Return(Err)
       \/ /\ logs' = GetLogsResult(from_block, to_block)
          /\ pc' = "process"
          /\ UNCHANGED <<rpc_failed, ret, in_progress, current_block, from_block, to_block,
                         event_count>>
    /\ UNCHANGED <<height, now, last_indexed_block, indexed_events, payments, songs,
                   crashes>>

CountEveryLog(count, result) == count + 1

\* The match of lines 155-161 on the result of process_log: Ok(true) counts
\* the log, Ok(false) and Err(e) do not.
EventCount(count, result) == IF result = "Ok(true)" THEN count + 1 ELSE count

\* Lines 154-162 with process_log, process_payment_event and
\* process_song_registered_event: one iteration of `for log in logs`.
ProcessLog ==
    /\ UNCHANGED not_indexer
    /\ pc = "process"
    /\ logs # <<>>
    /\ LET l == Head(logs) IN
       /\ logs' = Tail(logs)
       /\ \/ \* no topics, or an unknown signature: Ok(false)
             /\ l.topic0 \notin {PAYMENT_PROCESSED, SONG_REGISTERED}
             /\ event_count' = EventCount(event_count, "Ok(false)")
             /\ UNCHANGED <<payments, songs, rpc_failed, now>>
          \/ \* PaymentProcessed: get_block(block_number) fails, Err is warned
             /\ l.topic0 = PAYMENT_PROCESSED
             /\ rpc_failed' = TRUE
             /\ event_count' = EventCount(event_count, "Err")
             /\ UNCHANGED <<payments, songs, now>>
          \/ \* PaymentProcessed: get_block answers, the INSERT fails
             /\ l.topic0 = PAYMENT_PROCESSED
             /\ event_count' = EventCount(event_count, "Err")
             /\ UNCHANGED <<payments, songs, rpc_failed, now>>
          \/ \* PaymentProcessed: get_block answers Some(block) or None, INSERT runs
             /\ l.topic0 = PAYMENT_PROCESSED
             /\ \E timestamp \in {BlockTimestamp(l.block_number), 0} :
                    payments' = InsertPayment(payments, PaymentRow(l, timestamp))
             /\ event_count' = EventCount(event_count, "Ok(true)")
             /\ UNCHANGED <<songs, rpc_failed, now>>
          \/ \* SongRegistered: the UPDATE fails
             /\ l.topic0 = SONG_REGISTERED
             /\ event_count' = EventCount(event_count, "Err")
             /\ UNCHANGED <<payments, songs, rpc_failed, now>>
          \/ \* SongRegistered: the UPDATE runs at time t, not before the last NOW()
             /\ l.topic0 = SONG_REGISTERED
             /\ \E t \in now..MaxTime :
                    /\ now' = t
                    /\ songs' = UpdateSong(songs, l, t)
             /\ event_count' = EventCount(event_count, "Ok(true)")
             /\ UNCHANGED <<payments, rpc_failed>>
    /\ UNCHANGED <<height, last_indexed_block, indexed_events, pc, current_block,
                   from_block, to_block, ret, in_progress, crashes>>

\* Lines 164-168: self.last_indexed_block = to_block; save_checkpoint(to_block)
SaveCheckpoint ==
    /\ UNCHANGED not_indexer
    /\ pc = "process"
    /\ logs = <<>>
    /\ last_indexed_block' = to_block
    /\ \/ \* the INSERT INTO indexed_events fails: `?` returns the error
          /\ Return(Err)
          /\ UNCHANGED indexed_events
       \/ /\ indexed_events' = Append(indexed_events, to_block)
          /\ Return(Ok(event_count))
    /\ UNCHANGED <<height, now, payments, songs, crashes, rpc_failed>>

\* MAX(block_number) over indexed_events, COALESCE(.., start_block)
MaxCheckpoint(rows) ==
    IF rows = <<>> THEN StartBlock
    ELSE CHOOSE b \in {rows[i] : i \in 1..Len(rows)} :
            \A i \in 1..Len(rows) : rows[i] <= b

\* The process dies at any point; every in-memory value is lost.
Crash ==
    /\ UNCHANGED not_indexer
    /\ pc # "crashed"
    /\ crashes < MaxCrashes
    /\ crashes' = crashes + 1
    /\ pc' = "crashed"
    /\ last_indexed_block' = 0
    /\ current_block' = 0
    /\ from_block' = 0
    /\ to_block' = 0
    /\ logs' = <<>>
    /\ event_count' = 0
    /\ ret' = NoResult
    /\ in_progress' = 0
    /\ rpc_failed' = FALSE
    /\ UNCHANGED <<height, now, indexed_events, payments, songs>>

\* spawn_indexer -> EventIndexer::new (lines 88-107): the checkpoint query
\* answers, or fails and unwrap_or gives config.start_block.
Restart ==
    /\ UNCHANGED not_indexer
    /\ pc = "crashed"
    /\ pc' = "idle"
    /\ \/ last_indexed_block' = MaxCheckpoint(indexed_events)
       \/ last_indexed_block' = StartBlock
    /\ UNCHANGED <<height, now, indexed_events, payments, songs, current_block,
                   from_block, to_block, logs, event_count, ret, in_progress,
                   crashes, rpc_failed>>

IndexNewBlocks == GetBlockNumber \/ GetLogs \/ ProcessLog \/ SaveCheckpoint

\* ------------------------------------------------------------ plays zome
Artists == {"artist1", "artist2"}

\* RecordPlayInput values (duration_listened, song_duration, strategy_id) the
\* listener submits: below the engagement threshold, half a song, a full
\* song under patronage, and a duration above the song's.
PlayInputs == {
    [duration_listened |-> 29, song_duration |-> 60, strategy_id |-> "pay_per_stream"],
    [duration_listened |-> 30, song_duration |-> 60, strategy_id |-> "pay_per_stream"],
    [duration_listened |-> 60, song_duration |-> 60, strategy_id |-> "patronage"],
    [duration_listened |-> 61, song_duration |-> 60, strategy_id |-> "pay_per_stream"] }

\* ------------------------------------------------- u64 and f64 arithmetic
\* TLC's integers have 32 bits; a u64 amount of wei is held as its decimal
\* digits in groups of four, lowest group first, without leading zero groups
\* (0 is <<>>, 400_000_000_000_000 is <<0, 0, 0, 400>>).
Limb == 10000

RECURSIVE Norm(_)
Norm(a) == IF a # <<>> /\ a[Len(a)] = 0 THEN Norm(SubSeq(a, 1, Len(a) - 1)) ELSE a

RECURSIVE FromInt(_)
FromInt(n) == IF n = 0 THEN <<>> ELSE <<n % Limb>> \o FromInt(n \div Limb)

RECURSIVE AddCarry(_, _, _)
AddCarry(a, b, carry) ==
    IF a = <<>> /\ b = <<>>
    THEN FromInt(carry)
    ELSE LET x == IF a = <<>> THEN 0 ELSE Head(a)
             y == IF b = <<>> THEN 0 ELSE Head(b)
             s == x + y + carry
         IN  <<s % Limb>> \o AddCarry(IF a = <<>> THEN a ELSE Tail(a),
                                      IF b = <<>> THEN b ELSE Tail(b), s \div Limb)

Add(a, b) == AddCarry(a, b, 0)

RECURSIVE MulCarry(_, _, _)
MulCarry(a, k, carry) ==
    IF a = <<>> THEN FromInt(carry)
    ELSE LET p == Head(a) * k + carry
         IN  <<p % Limb>> \o MulCarry(Tail(a), k, p \div Limb)

\* a * k for an integer k below 200000
MulSmall(a, k) == Norm(MulCarry(a, k, 0))

RECURSIVE Mul(_, _)
Mul(a, b) ==
    IF b = <<>> THEN <<>>
    ELSE Add(MulSmall(a, Head(b)), Norm(<<0>> \o Mul(a, Tail(b))))

\* Long division by an integer k below 200000, highest group first: the
\* quotient's groups (lowest first) and the remainder.
RECURSIVE DivRem(_, _)
DivRem(a, k) ==
    IF a = <<>> THEN [q |-> <<>>, r |-> 0]
    ELSE LET high == DivRem(Tail(a), k)
             cur == high.r * Limb + Head(a)
         IN  [q |-> <<cur \div k>> \o high.q, r |-> cur % k]

DivSmall(a, k) == Norm(DivRem(a, k).q)
ModSmall(a, k) == DivRem(a, k).r

RECURSIVE LessFrom(_, _, _)
LessFrom(a, b, i) ==
    IF i = 0 THEN FALSE
    ELSE IF a[i] # b[i] THEN a[i] < b[i]
    ELSE LessFrom(a, b, i - 1)

\* a < b
Less(a, b) ==
    IF Len(a) # Len(b) THEN Len(a) < Len(b) ELSE LessFrom(a, b, Len(a))

Leq(a, b) == ~Less(b, a)

RECURSIVE Pow2(_)
\* 2^n, thirteen bits at a time
Pow2(n) == IF n < 13 THEN <<2^n>> ELSE MulSmall(Pow2(n - 13), 8192)

RECURSIVE ShiftRight(_, _)
\* floor(a / 2^n)
ShiftRight(a, n) ==
    IF n < 13 THEN DivSmall(a, 2^n) ELSE ShiftRight(DivSmall(a, 8192), n - 13)

RECURSIVE IntBits(_)
IntBits(n) == IF n = 0 THEN 0 ELSE 1 + IntBits(n \div 2)

RECURSIVE BitLength(_)
\* the number of bits of a
BitLength(a) ==
    IF Len(a) <= 1
    THEN IntBits(IF a = <<>> THEN 0 ELSE a[1])
    ELSE 13 + BitLength(DivSmall(a, 8192))

\* An f64 is m * 2^(-e) for a natural m of at most 53 bits (the significand);
\* no value of the zome is negative, subnormal or infinite.
F64(m, e) == [m |-> m, e |-> e]

\* Round to nearest, ties to even, of m * 2^(-e) to 53 significant bits: with
\* q the bits kept and n the number of bits dropped, the value is compared
\* with the midpoint (2q + 1) * 2^(n-1).
RoundToF64(m, e) ==
    LET n == BitLength(m) - 53 IN
    IF n <= 0 THEN F64(m, e)
    ELSE LET q == ShiftRight(m, n)
             mid == Mul(Add(MulSmall(q, 2), <<1>>), Pow2(n - 1))
             up == Less(mid, m) \/ (mid = m /\ ModSmall(q, 2) = 1)
         IN  F64(IF up THEN Add(q, <<1>>) ELSE q, e - n)

\* a * b of two f64
F64Mul(a, b) == RoundToF64(Mul(a.m, b.m), a.e + b.e)

RECURSIVE ShiftToOne(_, _)
\* The least j with d * 2^j >= s, for 0 < d < s.
ShiftToOne(d, s) == IF d >= s THEN 0 ELSE 1 + ShiftToOne(2 * d, s)

\* d as f64 / s as f64 for u32 0 < d < s: the quotient d * 2^k / s of 53
\* bits, rounded to nearest, ties to even.
F64Div(d, s) ==
    LET k == 52 + ShiftToOne(d, s)
        n == Mul(FromInt(d), Pow2(k))
        q == DivSmall(n, s)
        r == ModSmall(n, s)
    IN  IF 2 * r > s \/ (2 * r = s /\ ModSmall(q, 2) = 1)
        THEN F64(Add(q, <<1>>), k)
        ELSE F64(q, k)

\* a < b of two f64
F64Less(a, b) == Less(Mul(a.m, Pow2(b.e)), Mul(b.m, Pow2(a.e)))

\* (x as u64) of an f64 below 2^64: the integer part.
F64ToU64(x) == ShiftRight(x.m, x.e)

\* base_rate: u64 = 400_000_000_000_000
BaseRate == <<0, 0, 0, 400>>

\* The f64 literals of calculate_play_amount.
Zero == F64(<<>>, 0)
One == F64(<<1>>, 0)
Half == F64(<<1>>, 1)

MultiplierUnknownIsFree(strategy_id) ==
    CASE strategy_id = "premium" -> F64(<<2>>, 0)
      [] strategy_id = "patronage" -> F64(<<3>>, 1)
      [] strategy_id = "pay_per_stream" -> One
      [] OTHER -> Zero

\* The multiplier of the match on strategy_id: 2.0, 1.5, 0.0, 1.0 and 1.0 for
\* any other id.
multiplier(strategy_id) ==
    CASE strategy_id = "premium" -> F64(<<2>>, 0)
      [] strategy_id = "patronage" -> F64(<<3>>, 1)
      [] strategy_id = "gift" -> Zero
      [] strategy_id = "pay_per_stream" -> One
      [] OTHER -> One

CompletionUncapped(duration_listened, song_duration) ==
    IF song_duration > 0
    THEN IF duration_listened = 0 THEN Zero
         ELSE F64Div(duration_listened, song_duration)
    ELSE Zero

\* (duration_listened as f64 / song_duration as f64).min(1.0), 0.0 for a
\* song_duration of 0.
completion(duration_listened, song_duration) ==
    IF song_duration > 0
    THEN IF duration_listened >= song_duration THEN One
         ELSE IF duration_listened = 0 THEN Zero
         ELSE F64Div(duration_listened, song_duration)
    ELSE Zero

\* duration_listened < 30 && completion < 0.5
BelowThreshold(duration_listened, song_duration) ==
    duration_listened < 30 /\ F64Less(completion(duration_listened, song_duration), Half)

\* calculate_play_amount: 0 below the threshold, else the f64 product
\* (base_rate as f64) * completion * multiplier, as u64.
calculate_play_amount(strategy_id, duration_listened, song_duration) ==
    IF BelowThreshold(duration_listened, song_duration)
    THEN <<>>
    ELSE F64ToU64(F64Mul(F64Mul(F64(BaseRate, 0),
                                completion(duration_listened, song_duration)),
                         multiplier(strategy_id)))

ValidatePlayWithoutDuration(play) == ~play.settled

\* validate_create_play (the song_hash of an input is never empty).
validate_create_play(play) ==
    /\ ~(play.duration_listened > play.song_duration)
    /\ ~play.settled

ValidateSettlementWithoutCount(batch) ==
    /\ batch.play_count # 0
    /\ batch.status = "Pending"

\* validate_create_settlement
validate_create_settlement(batch) ==
    /\ ~(batch.play_count = 0)
    /\ ~(batch.play_count # Len(batch.play_hashes))
    /\ ~(batch.status # "Pending")

\* The all-zero 32 bytes compute_merkle_root returns for no hashes.
ZeroRoot == <<"zero32">>

HashPairUnordered(left, right) == <<"keccak256", {left, right}>>

\* hash_keccak256 of the concatenation of two values, collision-free.
HashPair(left, right) == <<"keccak256", left, right>>

\* One level of compute_merkle_root: current.chunks(2), a last chunk of one
\* element hashed with itself.
RECURSIVE MerkleLevel(_)
MerkleLevel(current) ==
    IF current = <<>> THEN <<>>
    ELSE IF Len(current) = 1 THEN <<HashPair(current[1], current[1])>>
    ELSE <<HashPair(current[1], current[2])>> \o MerkleLevel(SubSeq(current, 3, Len(current)))

RECURSIVE MerkleReduce(_)
MerkleReduce(current) ==
    IF Len(current) > 1 THEN MerkleReduce(MerkleLevel(current)) ELSE current[1]

\* compute_merkle_root over the raw bytes of the action hashes.
compute_merkle_root(hashes) ==
    IF hashes = <<>> THEN ZeroRoot
    ELSE MerkleReduce([i \in 1..Len(hashes) |-> <<"raw39", hashes[i]>>])

RECURSIVE SumSkippingFirst(_)
SumSkippingFirst(amounts) ==
    IF Len(amounts) <= 1 THEN <<>>
    ELSE Add(amounts[2], SumSkippingFirst(Tail(amounts)))

RECURSIVE SumSeq(_)
\* Iterator::sum of u64 amounts (no sum of the model nears 2^64).
SumSeq(amounts) ==
    IF amounts = <<>> THEN <<>> ELSE Add(Head(amounts), SumSeq(Tail(amounts)))

\* get_my_unsettled_plays: the hashes of the listener's plays, through the
\* ListenerToPlays links, whose record has settled = false.
UnsettledHashes ==
    LET Unsettled(h) == ~plays[h].settled IN SelectSeq(listener_to_plays, Unsettled)

\* .filter(|p| p.artist == artist) over the unsettled plays.
ArtistPlays(artist) ==
    LET OfArtist(h) == plays[h].artist = artist IN SelectSeq(UnsettledHashes, OfArtist)

AmountsOf(hashes) == [i \in 1..Len(hashes) |-> plays[hashes[i]].amount_owed]

\* calculate_play_amount over the inputs of PlayInputs.
PlayAmount ==
    [input \in PlayInputs |->
        calculate_play_amount(input.strategy_id, input.duration_listened,
                              input.song_duration)]

\* The Invalid(..) of validate_create_play and of validate_create_settlement
\* as create_entry returns them, and the error of create_settlement_batch.
ErrDuration == "Duration listened cannot exceed song duration"
ErrPlayCount == "Play count must match number of play hashes"
ErrNoUnsettled == "No unsettled plays for this artist"

\* record_play, lines 24-34: the PlayRecord of an input.
PlayRecord(artist, input, amount_owed) ==
    [artist |-> artist,
     duration_listened |-> input.duration_listened,
     song_duration |-> input.song_duration,
     strategy_id |-> input.strategy_id,
     amount_owed |-> amount_owed,
     settled |-> FALSE,
     settlement_hash |-> 0]

\* record_play on one input: the entry and its ListenerToPlays link are
\* committed together, or validation rejects the entry and nothing is
\* committed.
RecordPlay(artist, input, amount_owed) ==
    /\ Len(plays) < MaxPlays
    /\ LET play == PlayRecord(artist, input, amount_owed)
       IN  IF validate_create_play(play)
           THEN /\ plays' = Append(plays, play)
                /\ listener_to_plays' = Append(listener_to_plays, Len(plays) + 1)
                /\ zome_ret' = "ok"
           ELSE /\ zome_ret' = ErrDuration
                /\ UNCHANGED <<plays, listener_to_plays>>
    /\ UNCHANGED <<batches, artist_to_settlements, play_to_settlement, csb>>
    /\ UNCHANGED <<ixvars, trvars, clvars, blvars>>

record_play ==
    /\ \E artist \in Artists, input \in PlayInputs :
           RecordPlay(artist, input, PlayAmount[input])
    /\ UNCHANGED fnvars

NoCall == [pc |-> "none", artist |-> "", play_count |-> 0, total_amount |-> <<>>]

NeverEmpty(artist_plays) == FALSE

\* artist_plays.is_empty()
is_empty(artist_plays) == artist_plays = <<>>

\* create_settlement_batch, lines 160-176: the unsettled plays of the artist,
\* the error for none, play_count and total_amount.
create_settlement_batch_totals ==
    /\ csb.pc = "none"
    /\ \E artist \in Artists :
        LET artist_plays == ArtistPlays(artist) IN
        IF is_empty(artist_plays)
        THEN /\ zome_ret' = ErrNoUnsettled
             /\ UNCHANGED csb
        ELSE /\ csb' = [pc |-> "hashes", artist |-> artist,
                        play_count |-> Len(artist_plays),
                        total_amount |-> SumSeq(AmountsOf(artist_plays))]
             /\ UNCHANGED zome_ret
    /\ UNCHANGED <<plays, batches, listener_to_plays, artist_to_settlements,
                   play_to_settlement>>
    /\ UNCHANGED not_plays

\* create_settlement_batch, lines 179-239: the play hashes read again from
\* the links, the merkle root, the batch entry (validated) and its links.
create_settlement_batch_commit ==
    /\ csb.pc = "hashes"
    /\ Len(batches) < MaxBatches
    /\ LET play_hashes == ArtistPlays(csb.artist)
           batch == [artist |-> csb.artist,
                     play_count |-> csb.play_count,
                     total_amount |-> csb.total_amount,
                     play_hashes |-> play_hashes,
                     merkle_root |-> compute_merkle_root(play_hashes),
                     status |-> "Pending",
                     tx_hash |-> 0]
           batch_hash == Len(batches) + 1
       IN  IF validate_create_settlement(batch)
           THEN /\ batches' = Append(batches, batch)
                /\ artist_to_settlements' =
                       artist_to_settlements \cup {<<csb.artist, batch_hash>>}
                /\ play_to_settlement' = play_to_settlement \cup
                       {<<play_hashes[i], batch_hash>> : i \in 1..Len(play_hashes)}
                /\ zome_ret' = "ok"
           ELSE /\ zome_ret' = ErrPlayCount
                /\ UNCHANGED <<batches, artist_to_settlements, play_to_settlement>>
    /\ csb' = NoCall
    /\ UNCHANGED <<plays, listener_to_plays>>
    /\ UNCHANGED not_plays

\* ------------------------------------------- settlement of a batch (spec)
\* The steps of the settlement status tracker: the settlement transaction of a
\* Pending batch is broadcast; the indexer observes its confirmations and the
\* obligations of the batch become settled; the transaction is dropped or
\* reverted; the operator resubmits a Failed batch.
CanFailOrUnconfirm(status) == status \in {"Submitted", "Confirmed"}

CanFail(status) == status = "Submitted"

SetStatus(b, status) == [batches EXCEPT ![b].status = status]

BroadcastTx ==
    /\ \E b \in 1..Len(batches) :
        /\ batches[b].status = "Pending"
        /\ batches' = [batches EXCEPT ![b].status = "Submitted", ![b].tx_hash = b]
    /\ UNCHANGED <<plays, listener_to_plays, artist_to_settlements,
                   play_to_settlement, csb, zome_ret>>
    /\ UNCHANGED not_plays

ObserveConfirmations ==
    /\ \E b \in 1..Len(batches) :
        /\ batches[b].status = "Submitted"
        /\ batches' = SetStatus(b, "Confirmed")
        /\ plays' = [h \in 1..Len(plays) |->
                        IF \E i \in 1..Len(batches[b].play_hashes) :
                               batches[b].play_hashes[i] = h
                        THEN [plays[h] EXCEPT !.settled = TRUE, !.settlement_hash = b]
                        ELSE plays[h]]
    /\ UNCHANGED <<listener_to_plays, artist_to_settlements, play_to_settlement,
                   csb, zome_ret>>
    /\ UNCHANGED not_plays

TxDropped ==
    /\ \E b \in 1..Len(batches) :
        /\ CanFail(batches[b].status)
        /\ batches' = SetStatus(b, "Failed")
    /\ UNCHANGED <<plays, listener_to_plays, artist_to_settlements,
                   play_to_settlement, csb, zome_ret>>
    /\ UNCHANGED not_plays

Resubmit ==
    /\ \E b \in 1..Len(batches) :
        /\ batches[b].status = "Failed"
        /\ batches' = SetStatus(b, "Submitted")
    /\ UNCHANGED <<plays, listener_to_plays, artist_to_settlements,
                   play_to_settlement, csb, zome_ret>>
    /\ UNCHANGED not_plays

\* The plays of SettleSpec: half a song and a full song, of one artist.
SettleInputs == {input \in PlayInputs : input.duration_listened \in {30, 60}}

record_play_settle ==
    /\ \E input \in SettleInputs : RecordPlay("artist1", input, PlayAmount[input])
    /\ UNCHANGED fnvars

\* ------------------------------------------------ one record_play call
\* The strategy ids of the match of calculate_play_amount and one it does
\* not list.
Strategies == {"premium", "patronage", "gift", "pay_per_stream", "subscription"}

\* song_duration of the call: none, two short songs and a minute.
SongDurations == {0, 10, 11, 60}

PriceInputs ==
    [duration_listened : 0..MaxListened, song_duration : SongDurations,
     strategy_id : Strategies]

\* record_play, line 22: the amount owed for the input.
PriceCalculate ==
    /\ price_call.pc = "call"
    /\ price_call' =
           [pc |-> "priced", input |-> price_call.input,
            amount_owed |-> calculate_play_amount(price_call.input.strategy_id,
                                price_call.input.duration_listened,
                                price_call.input.song_duration)]
    /\ UNCHANGED <<ixvars, plvars, trvars, clvars, blvars,
                 merkle_call, score_call, tier_call, batch_call>>

\* record_play, lines 24-56: the entry and its link, or the rejection.
PriceRecordPlay ==
    /\ price_call.pc = "priced"
    /\ RecordPlay("artist1", price_call.input, price_call.amount_owed)
    /\ price_call' = [price_call EXCEPT !.pc = "returned"]
    /\ UNCHANGED <<merkle_call, score_call, tier_call, batch_call>>

\* ----------------------------------------- one compute_merkle_root call
\* The sequences of at most MaxLeaves play hashes.
MerkleInputs == UNION {[1..n -> 1..MaxHash] : n \in 0..MaxLeaves}

ComputeMerkleRoot ==
    /\ merkle_call.pc = "call"
    /\ merkle_call' = [pc |-> "returned", hashes |-> merkle_call.hashes,
                       root |-> compute_merkle_root(merkle_call.hashes)]
    /\ UNCHANGED <<ixvars, plvars, trvars, clvars, blvars,
                 price_call, score_call, tier_call, batch_call>>

\* -------------------------------------- one create_entry of a batch
\* The SettlementStatus of an entry.
Statuses == {"Pending", "Submitted", "Confirmed", "Failed"}

\* SettlementBatch entries an agent can commit: every play_count up to
\* MaxLeaves with every sequence of play hashes and every status.
BatchInputs ==
    {[artist |-> "artist1",
      play_count |-> play_count,
      total_amount |-> <<>>,
      play_hashes |-> play_hashes,
      merkle_root |-> compute_merkle_root(play_hashes),
      status |-> status,
      tx_hash |-> 0] :
        play_count \in 0..MaxLeaves, play_hashes \in MerkleInputs, status \in Statuses}

\* create_entry(&EntryTypes::SettlementBatch(batch)): the validate callback
\* runs validate_create_settlement on the entry, which is committed when
\* valid and fails the call otherwise.
CreateSettlementEntry ==
    /\ batch_call.pc = "call"
    /\ IF validate_create_settlement(batch_call.batch)
       THEN /\ batches' = Append(batches, batch_call.batch)
            /\ batch_call' = [pc |-> "returned", batch |-> batch_call.batch,
                              result |-> "ok"]
       ELSE /\ batch_call' = [pc |-> "returned", batch |-> batch_call.batch,
                              result |-> "Invalid"]
            /\ UNCHANGED batches
    /\ UNCHANGED <<plays, listener_to_plays, artist_to_settlements,
                   play_to_settlement, csb, zome_ret>>
    /\ UNCHANGED <<ixvars, trvars, clvars, blvars, price_call, merkle_call, score_call, tier_call>>

\* ------------------------------------------------- trust zome: CDN nodes
\* The agents that register as CDN nodes, and the agents that report: a
\* listener and the first node.
CdnNodes == {"node1", "node2"}
Reporters == {"listener1", "node1"}

\* latency_ms of a report: one value in each bucket of the score.
Latencies == {50, 300, 700}

\* eth_address of RegisterCdnNodeInput: whether it starts with "0x", and its
\* length.
EthAddresses == {[starts_with_0x |-> TRUE, len |-> 42], [starts_with_0x |-> TRUE, len |-> 40]}

\* validate_cdn_reputation: the node is the author, the address is well formed.
validate_cdn_reputation(rep, author) ==
    /\ ~(rep.node # author)
    /\ ~(~rep.eth_address.starts_with_0x \/ rep.eth_address.len # 42)

\* validate_quality_report: the reporter is the author and not the node.
validate_quality_report(report, author) ==
    /\ ~(report.reporter # author)
    /\ ~(report.reporter = report.node)

FirstReputation(node) ==
    IF node_to_reputation[node] = <<>> THEN 0 ELSE node_to_reputation[node][1]

\* links.last() of the NodeToReputation links of a node: the action hash of
\* the latest version, 0 without a link.
LatestReputation(node) ==
    IF node_to_reputation[node] = <<>> THEN 0
    ELSE node_to_reputation[node][Len(node_to_reputation[node])]

\* get_cdn_reputation
get_cdn_reputation(node) ==
    IF LatestReputation(node) = 0 THEN "None"
    ELSE reputation_entries[LatestReputation(node)]

\* register_cdn_node: the first version of the node's reputation and its link,
\* or the rejection of the entry by validate_cdn_reputation. A node registers
\* once; the link under all_cdn_nodes is not read by any step of the model.
register_cdn_node ==
    /\ \E node \in CdnNodes, eth_address \in EthAddresses :
        /\ node_to_reputation[node] = <<>>
        /\ LET reputation == [node |-> node,
                              eth_address |-> eth_address,
                              successful_requests |-> 0,
                              failed_requests |-> 0,
                              avg_latency_ms |-> 0,
                              uptime_bps |-> 1000,
                              pogq_score |-> 10000]
           IN  IF validate_cdn_reputation(reputation, node)
               THEN /\ reputation_entries' = Append(reputation_entries, reputation)
                    /\ node_to_reputation' =
                           [node_to_reputation EXCEPT
                               ![node] = <<Len(reputation_entries) + 1>>]
               ELSE UNCHANGED <<reputation_entries, node_to_reputation>>
    /\ UNCHANGED <<quality_reports, sqr, sqr_ret>>
    /\ UNCHANGED not_trust

MeanOfTwo(avg_latency_ms, total_requests, latency_ms) ==
    (avg_latency_ms + latency_ms) \div 2

\* The rolling average of update_cdn_reputation (u64 arithmetic, cast to u32).
rolling_average(avg_latency_ms, total_requests, latency_ms) ==
    (avg_latency_ms * (total_requests - 1) + latency_ms) \div total_requests

\* ((successful as f64 / total as f64) * 1000.0) as u32; for the counts of
\* the model the f64 quotient and product truncate to the integer quotient.
uptime(successful_requests, total) == (successful_requests * 1000) \div total

LatencyFactorSlowIsBetter(avg_latency_ms) ==
    IF avg_latency_ms < 100 THEN 5
    ELSE IF avg_latency_ms < 500 THEN 8
    ELSE 10

\* 1.0, 0.8 or 0.5, in tenths.
latency_factor(avg_latency_ms) ==
    IF avg_latency_ms < 100 THEN 10
    ELSE IF avg_latency_ms < 500 THEN 8
    ELSE 5

\* (uptime_bps as f64 / 1000.0) * latency_factor, in units of 1/10000.
pogq_score(uptime_bps, avg_latency_ms) == uptime_bps * latency_factor(avg_latency_ms)

\* update_cdn_reputation, lines 324-349: the new version of a reputation.
UpdatedReputation(rep, success, latency_ms) ==
    LET successful_requests == rep.successful_requests + (IF success THEN 1 ELSE 0)
        failed_requests == rep.failed_requests + (IF success THEN 0 ELSE 1)
        total == successful_requests + failed_requests
        avg_latency_ms == IF success
                          THEN rolling_average(rep.avg_latency_ms, total, latency_ms)
                          ELSE rep.avg_latency_ms
        uptime_bps == uptime(successful_requests, total)
    IN  [rep EXCEPT !.successful_requests = successful_requests,
                    !.failed_requests = failed_requests,
                    !.avg_latency_ms = avg_latency_ms,
                    !.uptime_bps = uptime_bps,
                    !.pogq_score = pogq_score(uptime_bps, avg_latency_ms)]

\* The counts and the average latency that lines 336-349 work on: every
\* split of 1..MaxRequests requests, and latencies on both sides of the two
\* thresholds of the score.
ScoreLatencies == {0, 99, 100, 499, 500, 700}

ScoreInputs ==
    {[successful_requests |-> counts[1],
      failed_requests |-> counts[2],
      avg_latency_ms |-> avg_latency_ms] :
        counts \in {c \in (0..MaxRequests) \X (0..MaxRequests) :
                       c[1] + c[2] \in 1..MaxRequests},
        avg_latency_ms \in ScoreLatencies}

\* update_cdn_reputation, lines 336-349: uptime_bps and pogq_score of the
\* counts and the average latency of the call.
ScoreCompute ==
    /\ score_call.pc = "call"
    /\ LET input == score_call.input
           uptime_bps == uptime(input.successful_requests,
                                input.successful_requests + input.failed_requests)
       IN  score_call' = [pc |-> "returned", input |-> input,
                          uptime_bps |-> uptime_bps,
                          pogq_score |-> pogq_score(uptime_bps, input.avg_latency_ms)]
    /\ UNCHANGED <<ixvars, plvars, trvars, clvars, blvars,
                 price_call, merkle_call, tier_call, batch_call>>

Idle == [pc |-> "idle"]

\* submit_quality_report up to the get of update_cdn_reputation (lines
\* 269-318): the report and its link, or its rejection by
\* validate_quality_report; then the latest reputation of the node is read.
\* Without one the call returns Ok.
submit_quality_report_read ==
    /\ Len(quality_reports) < MaxReports
    /\ \E reporter \in Reporters, node \in CdnNodes, success \in BOOLEAN,
          latency_ms \in Latencies :
        /\ sqr[reporter].pc = "idle"
        /\ LET report == [reporter |-> reporter, node |-> node,
                          latency_ms |-> latency_ms, success |-> success]
           IN  IF validate_quality_report(report, reporter)
               THEN /\ quality_reports' = Append(quality_reports, report)
                    /\ IF LatestReputation(node) = 0
                       THEN /\ sqr_ret' = [sqr_ret EXCEPT ![reporter] = "ok"]
                            /\ UNCHANGED sqr
                       ELSE /\ sqr' = [sqr EXCEPT ![reporter] =
                                   [pc |-> "update", node |-> node,
                                    success |-> success, latency_ms |-> latency_ms,
                                    action_hash |-> LatestReputation(node)]]
                            /\ UNCHANGED sqr_ret
               ELSE /\ sqr_ret' = [sqr_ret EXCEPT ![reporter] = "Cannot report on self"]
                    /\ UNCHANGED <<quality_reports, sqr>>
    /\ UNCHANGED <<reputation_entries, node_to_reputation>>
    /\ UNCHANGED not_trust

\* update_cdn_reputation, lines 324-363: the new version is committed with
\* update_entry and linked to the node.
submit_quality_report_update ==
    /\ \E reporter \in Reporters :
        /\ sqr[reporter].pc = "update"
        /\ LET call == sqr[reporter]
               rep == UpdatedReputation(reputation_entries[call.action_hash],
                                        call.success, call.latency_ms)
           IN  /\ reputation_entries' = Append(reputation_entries, rep)
               /\ node_to_reputation' =
                      [node_to_reputation EXCEPT
                          ![call.node] = Append(@, Len(reputation_entries) + 1)]
        /\ sqr' = [sqr EXCEPT ![reporter] = Idle]
        /\ sqr_ret' = [sqr_ret EXCEPT ![reporter] = "ok"]
    /\ UNCHANGED quality_reports
    /\ UNCHANGED not_trust

\* The agents that vouch for each other, and the confidence_bps of a claim:
\* a low one, the highest one and one above the range.
Agents == {"alice", "bob"}
Confidences == {100, 1000, 1001}

Valid == "Valid"

ValidateAuthorOnly(claim, author) ==
    IF claim.from # author THEN "Trust claim 'from' must match action author"
    ELSE Valid

\* validate_trust_claim: the result of the validation of a created claim.
validate_trust_claim(claim, author) ==
    IF claim.from # author THEN "Trust claim 'from' must match action author"
    ELSE IF claim.from = claim.to THEN "Cannot create trust claim for self"
    ELSE IF claim.confidence_bps > 1000 THEN "Confidence must be 0-1000 basis points"
    ELSE Valid

\* get_trust_claims: the record of each link target, read by its action hash
\* (get returns the record of that action, whatever updates it has), the
\* active ones kept, in link order.
get_trust_claims(claims, links, agent) ==
    SelectSeq([i \in 1..Len(links[agent]) |-> claims[links[agent][i]]],
              LAMBDA claim : claim.active)

\* claims.iter().map(|c| c.confidence_bps)
ConfidencesOf(claims) == [i \in 1..Len(claims) |-> claims[i].confidence_bps]

\* .sum() in u32; the claims of the model are far from 2^32.
RECURSIVE total_confidence(_)
total_confidence(confidences) ==
    IF confidences = <<>> THEN 0
    ELSE confidences[1] + total_confidence(Tail(confidences))

\* recompute_verification, lines 101-105
trust_score(vouch_count, total) ==
    IF vouch_count > 0 THEN total \div vouch_count ELSE 0

TierByCountOnly(vouch_count, score) ==
    IF vouch_count >= 10 THEN "Trusted"
    ELSE IF vouch_count >= 3 THEN "CommunityVerified"
    ELSE "Unverified"

\* recompute_verification, lines 108-114
tier(vouch_count, score) ==
    IF vouch_count >= 10 /\ score >= 800 THEN "Trusted"
    ELSE IF vouch_count >= 3 THEN "CommunityVerified"
    ELSE "Unverified"

\* recompute_verification, lines 98-122: the status of an agent with the
\* given confidences of its active claims.
VerificationStatus(agent, confidences) ==
    LET vouch_count == Len(confidences)
        score == trust_score(vouch_count, total_confidence(confidences))
    IN  [artist |-> agent,
         trust_score |-> score,
         tier |-> tier(vouch_count, score),
         vouch_count |-> vouch_count]

\* recompute_verification on the claims and links as the call has left them.
recompute_verification(agent, claims, links) ==
    /\ verification_entries' =
           Append(verification_entries,
                  VerificationStatus(agent,
                      ConfidencesOf(get_trust_claims(claims, links, agent))))
    /\ agent_to_verification' =
           [agent_to_verification EXCEPT
               ![agent] = Append(@, Len(verification_entries) + 1)]

\* create_trust_claim: the claim, its link under claims_received and the new
\* status of the recipient, or the rejection of the entry by
\* validate_trust_claim, which fails the call before anything is committed.
\* The links under claims_made are not read by any step of the model.
create_trust_claim ==
    /\ Len(trust_claims) < MaxClaims
    /\ \E my_agent \in Agents, to \in Agents, confidence_bps \in Confidences :
        LET claim == [from |-> my_agent, to |-> to,
                      confidence_bps |-> confidence_bps, active |-> TRUE,
                      original_action_address |-> 0]
            result == validate_trust_claim(claim, my_agent)
            call == [fn |-> "create_trust_claim", agent |-> my_agent,
                     to |-> to, confidence_bps |-> confidence_bps]
        IN  IF result = Valid
            THEN LET claims == Append(trust_claims, claim)
                     links == [claims_received EXCEPT ![to] = Append(@, Len(claims))]
                 IN  /\ trust_claims' = claims
                     /\ claims_received' = links
                     /\ recompute_verification(to, claims, links)
                     /\ claim_call' = [call |-> call, result |-> "ok"]
            ELSE /\ claim_call' = [call |-> call, result |-> result]
                 /\ UNCHANGED <<trust_claims, claims_received,
                                verification_entries, agent_to_verification>>
    /\ UNCHANGED not_claims

\* revoke_trust_claim, line 474: the caller made the claim.
is_owner(claim, my_agent) == ~(claim.from # my_agent)

\* revoke_trust_claim: the record of claim_hash is read, and when the caller
\* made the claim a copy with active = false is committed with update_entry
\* (a new record; updates are not validated) and the status of the recipient
\* is recomputed.
revoke_trust_claim ==
    /\ Len(trust_claims) < MaxClaims
    /\ \E my_agent \in Agents, claim_hash \in 1..(Len(trust_claims) + 1) :
        LET call == [fn |-> "revoke_trust_claim", agent |-> my_agent,
                     claim_hash |-> claim_hash]
        IN  IF claim_hash > Len(trust_claims)
            THEN /\ claim_call' = [call |-> call, result |-> "Claim not found"]
                 /\ UNCHANGED <<trust_claims, claims_received,
                                verification_entries, agent_to_verification>>
            ELSE IF ~is_owner(trust_claims[claim_hash], my_agent)
            THEN /\ claim_call' = [call |-> call, result |-> "Can only revoke own claims"]
                 /\ UNCHANGED <<trust_claims, claims_received,
                                verification_entries, agent_to_verification>>
            ELSE LET claim == [trust_claims[claim_hash] EXCEPT
                                  !.active = FALSE,
                                  !.original_action_address = claim_hash]
                     claims == Append(trust_claims, claim)
                 IN  /\ trust_claims' = claims
                     /\ recompute_verification(claim.to, claims, claims_received)
                     /\ claim_call' = [call |-> call, result |-> "ok"]
                     /\ UNCHANGED claims_received
    /\ UNCHANGED not_claims

ClaimsInit ==
    /\ trust_claims = <<>>
    /\ verification_entries = <<>>
    /\ claims_received = [agent \in Agents |-> <<>>]
    /\ agent_to_verification = [agent \in Agents |-> <<>>]
    /\ claim_call = [call |-> [fn |-> "none"], result |-> "none"]

\* n claims of the same confidence.
Repeat(confidence_bps, n) == [i \in 1..n |-> confidence_bps]

\* The confidences of the active claims of an agent: up to MaxVouches
\* claims of one or two values on both sides of the score threshold.
TierConfidences == {100, 799, 800, 1000}

TierInputs ==
    {Repeat(c[1], n[1]) \o Repeat(c[2], n[2]) :
        c \in TierConfidences \X TierConfidences,
        n \in {m \in (0..MaxVouches) \X (0..3) : m[1] + m[2] <= MaxVouches}}

\* recompute_verification, lines 98-122, on the confidences of the call.
TierCompute ==
    /\ tier_call.pc = "call"
    /\ tier_call' = [pc |-> "returned", confidences |-> tier_call.confidences,
                     status |-> VerificationStatus("alice", tier_call.confidences)]
    /\ UNCHANGED <<ixvars, plvars, trvars, clvars, blvars,
                 price_call, merkle_call, score_call, batch_call>>

TrustInit ==
    /\ reputation_entries = <<>>
    /\ quality_reports = <<>>
    /\ node_to_reputation = [node \in CdnNodes |-> <<>>]
    /\ sqr = [reporter \in Reporters |-> Idle]
    /\ sqr_ret = [reporter \in Reporters |-> "none"]

PlaysInit ==
    /\ plays = <<>>
    /\ batches = <<>>
    /\ listener_to_plays = <<>>
    /\ artist_to_settlements = {}
    /\ play_to_settlement = {}
    /\ csb = NoCall
    /\ zome_ret = "none"

\* ------------------------------------------------------------ balances zome
\* amount arguments: 8 is i64::MIN as a u64, 9 is the first amount whose
\* `as i64` is negative and can be negated.
BalanceAmounts == {0, 1, 8, 9}

\* `x as i64` of a u64 x.
as_i64(x) == IF x >= U64_MODULUS \div 2 THEN x - U64_MODULUS ELSE x

validate_listener_account(account, author) ==
    IF account.owner # author THEN "Account owner must match action author"
    ELSE IF ~account.eth_address.starts_with_0x \/ account.eth_address.len # 42
    THEN "Invalid Ethereum address format"
    ELSE Valid

validate_artist_account(account, author) ==
    IF account.owner # author THEN "Account owner must match action author"
    ELSE IF ~account.eth_address.starts_with_0x \/ account.eth_address.len # 42
    THEN "Invalid Ethereum address format"
    ELSE Valid

validate_deposit(deposit) ==
    IF deposit.tx_hash = "" THEN "Deposit must have a transaction hash"
    ELSE IF deposit.amount = 0 THEN "Deposit amount must be greater than 0"
    ELSE Valid

validate_transfer(transfer) ==
    IF transfer.amount = 0 THEN "Transfer amount must be greater than 0"
    ELSE IF transfer.from = transfer.to THEN "Cannot transfer to self"
    ELSE Valid

\* update_listener_balance: the result and the listener accounts after it.
\* Without an account under listener_account/{agent} nothing is written and
\* the result is Ok. `+=` and the negation of i64::MIN overflow: a build with
\* overflow checks panics, a build without them wraps.
update_listener_balance(agent, delta, overflow_checks) ==
    LET account == listener_accounts[agent][1]
        abs_delta == -delta
    IN  IF listener_accounts[agent] = <<>>
        THEN [result |-> "Ok", accounts |-> listener_accounts]
        ELSE IF delta >= 0
        THEN IF overflow_checks /\ (\/ account.balance + delta >= U64_MODULUS
                                    \/ account.total_deposited + delta >= U64_MODULUS)
             THEN [result |-> "panic", accounts |-> listener_accounts]
             ELSE [result |-> "Ok",
                   accounts |-> [listener_accounts EXCEPT ![agent] =
                       <<[account EXCEPT
                           !.balance = (@ + delta) % U64_MODULUS,
                           !.total_deposited = (@ + delta) % U64_MODULUS]>>]]
        ELSE IF overflow_checks /\ delta = -(U64_MODULUS \div 2)
        THEN [result |-> "panic", accounts |-> listener_accounts]
        ELSE IF account.balance >= abs_delta
        THEN IF overflow_checks /\ account.total_spent + abs_delta >= U64_MODULUS
             THEN [result |-> "panic", accounts |-> listener_accounts]
             ELSE [result |-> "Ok",
                   accounts |-> [listener_accounts EXCEPT ![agent] =
                       <<[account EXCEPT
                           !.balance = @ - abs_delta,
                           !.total_spent = (@ + abs_delta) % U64_MODULUS]>>]]
        ELSE [result |-> "Insufficient balance", accounts |-> listener_accounts]

\* update_artist_balance: as update_listener_balance, but a debit above the
\* pending balance changes nothing and is no error.
update_artist_balance(agent, delta, overflow_checks) ==
    LET account == artist_accounts[agent][1]
        abs_delta == -delta
    IN  IF artist_accounts[agent] = <<>>
        THEN [result |-> "Ok", accounts |-> artist_accounts]
        ELSE IF delta >= 0
        THEN IF overflow_checks /\ (\/ account.pending_balance + delta >= U64_MODULUS
                                    \/ account.total_earned + delta >= U64_MODULUS)
             THEN [result |-> "panic", accounts |-> artist_accounts]
             ELSE [result |-> "Ok",
                   accounts |-> [artist_accounts EXCEPT ![agent] =
                       <<[account EXCEPT
                           !.pending_balance = (@ + delta) % U64_MODULUS,
                           !.total_earned = (@ + delta) % U64_MODULUS]>>]]
        ELSE IF overflow_checks /\ delta = -(U64_MODULUS \div 2)
        THEN [result |-> "panic", accounts |-> artist_accounts]
        ELSE IF account.pending_balance >= abs_delta
        THEN IF overflow_checks /\ account.total_cashed_out + abs_delta >= U64_MODULUS
             THEN [result |-> "panic", accounts |-> artist_accounts]
             ELSE [result |-> "Ok",
                   accounts |-> [artist_accounts EXCEPT ![agent] =
                       <<[account EXCEPT
                           !.pending_balance = @ - abs_delta,
                           !.total_cashed_out = (@ + abs_delta) % U64_MODULUS]>>]]
        ELSE [result |-> "Ok", accounts |-> artist_accounts]

\* get_or_create_listener_account by my_agent: the existing account is
\* returned as it is; a new one is committed unless its validation fails.
get_or_create_listener_account ==
    \E my_agent \in Agents, eth_address \in EthAddresses :
        LET account == [owner |-> my_agent, eth_address |-> eth_address,
                        balance |-> 0, total_deposited |-> 0, total_spent |-> 0]
            valid == validate_listener_account(account, my_agent)
            exists == listener_accounts[my_agent] # <<>>
        IN  /\ balance_call' =
                   [call |-> [fn |-> "get_or_create_listener_account",
                              agent |-> my_agent, eth_address |-> eth_address],
                    result |-> IF exists \/ valid = Valid THEN "Ok" ELSE valid]
            /\ listener_accounts' =
                   IF ~exists /\ valid = Valid
                   THEN [listener_accounts EXCEPT ![my_agent] = <<account>>]
                   ELSE listener_accounts
            /\ UNCHANGED <<artist_accounts, deposits, transfers, not_balances>>

\* get_or_create_artist_account by my_agent.
get_or_create_artist_account ==
    \E my_agent \in Agents, eth_address \in EthAddresses :
        LET account == [owner |-> my_agent, eth_address |-> eth_address,
                        pending_balance |-> 0, total_earned |-> 0,
                        total_cashed_out |-> 0]
            valid == validate_artist_account(account, my_agent)
            exists == artist_accounts[my_agent] # <<>>
        IN  /\ balance_call' =
                   [call |-> [fn |-> "get_or_create_artist_account",
                              agent |-> my_agent, eth_address |-> eth_address],
                    result |-> IF exists \/ valid = Valid THEN "Ok" ELSE valid]
            /\ artist_accounts' =
                   IF ~exists /\ valid = Valid
                   THEN [artist_accounts EXCEPT ![my_agent] = <<account>>]
                   ELSE artist_accounts
            /\ UNCHANGED <<listener_accounts, deposits, transfers, not_balances>>

\* record_deposit by my_agent: the Deposit entry, then the credit of
\* `amount as i64`. A call that returns an error commits nothing.
record_deposit ==
    \E my_agent \in Agents, amount \in BalanceAmounts, tx_hash \in {"", "0xd1"},
       overflow_checks \in BOOLEAN :
        LET deposit == [listener |-> my_agent, amount |-> amount,
                        tx_hash |-> tx_hash, verified |-> FALSE]
            valid == validate_deposit(deposit)
            update == update_listener_balance(my_agent, as_i64(amount), overflow_checks)
            result == IF valid # Valid THEN valid ELSE update.result
        IN  /\ Len(deposits) < MaxDeposits
            /\ balance_call' =
                   [call |-> [fn |-> "record_deposit", agent |-> my_agent,
                              amount |-> amount, tx_hash |-> tx_hash],
                    result |-> result]
            /\ IF result = "Ok"
               THEN /\ deposits' = Append(deposits, deposit)
                    /\ listener_accounts' = update.accounts
               ELSE UNCHANGED <<deposits, listener_accounts>>
            /\ UNCHANGED <<artist_accounts, transfers, not_balances>>

\* execute_transfer: the Transfer entry, the debit of -(amount as i64) from
\* the listener account of `from`, the credit of amount as i64 to the artist
\* account of `to`. A call that returns an error commits nothing.
execute_transfer ==
    \E from \in Agents, to \in Agents, amount \in BalanceAmounts,
       overflow_checks \in BOOLEAN :
        LET transfer == [from |-> from, to |-> to, amount |-> amount,
                         reason |-> "PlaySettlement"]
            valid == validate_transfer(transfer)
            negation_overflows == as_i64(amount) = -(U64_MODULUS \div 2)
            debit == update_listener_balance(from,
                         IF negation_overflows THEN as_i64(amount) ELSE -as_i64(amount),
                         overflow_checks)
            credit == update_artist_balance(to, as_i64(amount), overflow_checks)
            result == IF valid # Valid THEN valid
                      ELSE IF overflow_checks /\ negation_overflows THEN "panic"
                      ELSE IF debit.result # "Ok" THEN debit.result
                      ELSE credit.result
        IN  /\ Len(transfers) < MaxTransfers
            /\ balance_call' =
                   [call |-> [fn |-> "execute_transfer", from |-> from, to |-> to,
                              amount |-> amount],
                    result |-> result]
            /\ IF result = "Ok"
               THEN /\ transfers' = Append(transfers, transfer)
                    /\ listener_accounts' = debit.accounts
                    /\ artist_accounts' = credit.accounts
               ELSE UNCHANGED <<transfers, listener_accounts, artist_accounts>>
            /\ UNCHANGED <<deposits, not_balances>>

BalancesInit ==
    /\ listener_accounts = [agent \in Agents |-> <<>>]
    /\ artist_accounts = [agent \in Agents |-> <<>>]
    /\ deposits = <<>>
    /\ transfers = <<>>
    /\ balance_call = [call |-> [fn |-> "none"], result |-> "none"]

\* No call of PriceSpec, MerkleSpec, ScoreSpec, TierSpec or BatchSpec.
NoFunctionCall ==
    /\ price_call = [pc |-> "none"]
    /\ merkle_call = [pc |-> "none"]
    /\ score_call = [pc |-> "none"]
    /\ tier_call = [pc |-> "none"]
    /\ batch_call = [pc |-> "none"]

IndexerInit ==
    /\ height = 0
    /\ now = 0
    /\ last_indexed_block = StartBlock
    /\ indexed_events = <<>>
    /\ payments = <<>>
    /\ songs = [s \in SongIds |->
                 [strategy_id |-> 0, registered_on_chain |-> FALSE,
                  registration_tx |-> 0, registration_block |-> 0, updated_at |-> 0]]
    /\ pc = "idle"
    /\ current_block = 0
    /\ from_block = 0
    /\ to_block = 0
    /\ logs = <<>>
    /\ event_count = 0
    /\ ret = NoResult
    /\ in_progress = 0
    /\ crashes = 0
    /\ rpc_failed = FALSE

Init ==
    /\ IndexerInit
    /\ PlaysInit
    /\ TrustInit
    /\ ClaimsInit
    /\ BalancesInit
    /\ NoFunctionCall

Next ==
    \/ GetBlockNumber
    \/ GetLogs
    \/ ProcessLog
    \/ SaveCheckpoint
    \/ Crash
    \/ Restart

Spec == Init /\ [][Next]_vars

\* One run of the task, no crash. run() polls for ever (weak fairness of each
\* step of a cycle), and a call to the ledger node that is retried for ever
\* succeeds infinitely often (strong fairness of the two successful calls).
NextLive ==
    \/ GetBlockNumber
    \/ GetLogs
    \/ ProcessLog
    \/ SaveCheckpoint

LiveSpec ==
    /\ Init
    /\ [][NextLive]_vars
    /\ WF_vars(ProcessLog)
    /\ WF_vars(SaveCheckpoint)
    /\ SF_vars(GetBlockNumber /\ pc' = "get_logs")
    /\ SF_vars(GetLogs /\ pc' = "process")

PlaysNext ==
    \/ record_play
    \/ create_settlement_batch_totals
    \/ create_settlement_batch_commit

PlaysSpec == Init /\ [][PlaysNext]_vars

\* The listener's cell and the settlement of its batches.
SettleNext ==
    \/ record_play_settle
    \/ create_settlement_batch_totals
    \/ create_settlement_batch_commit
    \/ BroadcastTx
    \/ ObserveConfirmations
    \/ TxDropped
    \/ Resubmit

SettleSpec == Init /\ [][SettleNext]_vars

\* One record_play call on an empty cell, for every input of PriceInputs.
PriceInit ==
    /\ IndexerInit
    /\ PlaysInit
    /\ TrustInit
    /\ ClaimsInit
    /\ BalancesInit
    /\ price_call \in {[pc |-> "call", input |-> input] : input \in PriceInputs}
    /\ merkle_call = [pc |-> "none"]
    /\ score_call = [pc |-> "none"]
    /\ tier_call = [pc |-> "none"]
    /\ batch_call = [pc |-> "none"]

PriceNext ==
    \/ PriceCalculate
    \/ PriceRecordPlay

PriceSpec == PriceInit /\ [][PriceNext]_vars

\* One compute_merkle_root call, for every sequence of MerkleInputs.
MerkleInit ==
    /\ IndexerInit
    /\ PlaysInit
    /\ TrustInit
    /\ ClaimsInit
    /\ BalancesInit
    /\ price_call = [pc |-> "none"]
    /\ merkle_call \in {[pc |-> "call", hashes |-> hashes] : hashes \in MerkleInputs}
    /\ score_call = [pc |-> "none"]
    /\ tier_call = [pc |-> "none"]
    /\ batch_call = [pc |-> "none"]

MerkleNext == ComputeMerkleRoot

MerkleSpec == MerkleInit /\ [][MerkleNext]_vars

\* One score computation of update_cdn_reputation, for every input of
\* ScoreInputs.
ScoreInit ==
    /\ IndexerInit
    /\ PlaysInit
    /\ TrustInit
    /\ ClaimsInit
    /\ BalancesInit
    /\ price_call = [pc |-> "none"]
    /\ merkle_call = [pc |-> "none"]
    /\ score_call \in {[pc |-> "call", input |-> input] : input \in ScoreInputs}
    /\ tier_call = [pc |-> "none"]
    /\ batch_call = [pc |-> "none"]

ScoreNext == ScoreCompute

ScoreSpec == ScoreInit /\ [][ScoreNext]_vars

\* One tier computation of recompute_verification, for every input of
\* TierInputs.
TierInit ==
    /\ IndexerInit
    /\ PlaysInit
    /\ TrustInit
    /\ ClaimsInit
    /\ BalancesInit
    /\ price_call = [pc |-> "none"]
    /\ merkle_call = [pc |-> "none"]
    /\ score_call = [pc |-> "none"]
    /\ tier_call \in {[pc |-> "call", confidences |-> confidences] :
                          confidences \in TierInputs}
    /\ batch_call = [pc |-> "none"]

TierNext == TierCompute

TierSpec == TierInit /\ [][TierNext]_vars

\* One create_entry of a SettlementBatch, for every entry of BatchInputs.
BatchInit ==
    /\ IndexerInit
    /\ PlaysInit
    /\ TrustInit
    /\ ClaimsInit
    /\ BalancesInit
    /\ price_call = [pc |-> "none"]
    /\ merkle_call = [pc |-> "none"]
    /\ score_call = [pc |-> "none"]
    /\ tier_call = [pc |-> "none"]
    /\ batch_call \in {[pc |-> "call", batch |-> batch] : batch \in BatchInputs}

BatchNext == CreateSettlementEntry

BatchSpec == BatchInit /\ [][BatchNext]_vars

\* The agents of the trust zome vouching for each other and revoking.
ClaimsNext ==
    \/ create_trust_claim
    \/ revoke_trust_claim

ClaimsSpec == Init /\ [][ClaimsNext]_vars

\* The agents of the balances zome opening accounts, depositing and
\* transferring, one call at a time.
BalancesNext ==
    \/ get_or_create_listener_account
    \/ get_or_create_artist_account
    \/ record_deposit
    \/ execute_transfer

BalancesSpec == Init /\ [][BalancesNext]_vars

\* The CDN nodes and the reporters of the trust zome, each in its own cell.
TrustNext ==
    \/ register_cdn_node
    \/ submit_quality_report_read
    \/ submit_quality_report_update

TrustSpec == Init /\ [][TrustNext]_vars

\* ------------------------------------------------------------------ claims
PaymentLogs == {l \in ChainLogs : l.topic0 = PAYMENT_PROCESSED}
Recognised == {l \in ChainLogs : l.topic0 \in {PAYMENT_PROCESSED, SONG_REGISTERED}}

\* The rows of payments that record log l.
RecordsOf(l) ==
    {i \in 1..Len(payments) :
        /\ payments[i].tx_hash = l.tx_hash
        /\ payments[i].block_number = l.block_number
        /\ payments[i].song_id = l.song_id
        /\ payments[i].amount_wei = l.amount}

\* A step of a cycle of the running task (not a crash, not a restart).
CycleStep == pc # "crashed" /\ pc' # "crashed"

C2_NoLogLost ==
    \A l \in PaymentLogs :
        l.block_number <= last_indexed_block => RecordsOf(l) # {}

\* The logs of the current window have all been processed, each recognised
\* one without error: the state process-once leaves, and the one a crash
\* before save_checkpoint makes the restarted task replay.
WindowProcessed ==
    /\ pc = "process"
    /\ logs = <<>>
    /\ event_count = Len(GetLogsResult(from_block, to_block))
                        - Cardinality({l \in ChainLogs \ Recognised :
                            l.block_number >= from_block /\ l.block_number <= to_block})

\* Tables payments and songs after the logs ls are processed without error
\* at time t; none: get_block answers None.
RECURSIVE Replay(_, _, _, _, _)
Replay(pay, sng, ls, t, none) ==
    IF ls = <<>> THEN [payments |-> pay, songs |-> sng]
    ELSE LET l == Head(ls)
             ts == IF none THEN 0 ELSE BlockTimestamp(l.block_number)
         IN  IF l.topic0 = PAYMENT_PROCESSED
             THEN Replay(InsertPayment(pay, PaymentRow(l, ts)), sng, Tail(ls), t, none)
             ELSE IF l.topic0 = SONG_REGISTERED
             THEN Replay(pay, UpdateSong(sng, l, t), Tail(ls), t, none)
             ELSE Replay(pay, sng, Tail(ls), t, none)

WithoutUpdatedAt(sng) ==
    [s \in DOMAIN sng |->
        [strategy_id |-> sng[s].strategy_id,
         registered_on_chain |-> sng[s].registered_on_chain,
         registration_tx |-> sng[s].registration_tx,
         registration_block |-> sng[s].registration_block]]

NoDuplicatePayments ==
    \A i, j \in 1..Len(payments) :
        payments[i].tx_hash = payments[j].tx_hash => i = j

C4_RecordPerLogIndex ==
    WindowProcessed =>
        \A l \in PaymentLogs :
            (l.block_number >= from_block /\ l.block_number <= to_block)
                => RecordsOf(l) # {}

\* last_indexed_block when the cycle in progress (or about to start) began.
CycleStartLast == IF pc = "idle" THEN last_indexed_block ELSE from_block - 1

\* C5: a cycle in which a call to the ledger node failed returns an error
\* and leaves last_indexed_block and the persisted checkpoints as they were
\* when it started.
C5_LedgerFailureAbortsCycle ==
    [][(CycleStep /\ pc' = "idle" /\ rpc_failed') =>
        /\ ret'.ok = FALSE
        /\ last_indexed_block' = CycleStartLast
        /\ indexed_events' = indexed_events]_vars

\* C6: a payment log is persisted only once its block is confirmation-deep,
\* and once a cycle of the running task has covered its block it has exactly
\* one payment record.
C6_ConfirmedThenExactlyOnce ==
    \A l \in PaymentLogs :
        /\ RecordsOf(l) # {} => l.block_number <= height - Confirmations
        /\ (crashes = 0 /\ pc = "idle" /\ l.block_number <= last_indexed_block)
              => Cardinality(RecordsOf(l)) = 1

\* C7: run() never leaves its loop, and every block that is
\* confirmation-deep is eventually covered by last_indexed_block.
C7_LoopSurvivesAndCatchesUp ==
    /\ [](pc # "exited")
    /\ \A b \in 1..MaxHeight :
          [](b <= height - Confirmations => <>(last_indexed_block >= b))

\* A cycle returned an error (the first checkpoint was not saved) and later
\* cycles caught up with the chain.
C7_Witness ==
    /\ pc = "idle"
    /\ height = 7
    /\ last_indexed_block = 4
    /\ indexed_events = <<4>>

\* C8: at most one index_new_blocks() is in progress, and a checkpoint row
\* is written only by the cycle in progress.
C8_SingleCycle ==
    /\ [](in_progress <= 1)
    /\ [][indexed_events' # indexed_events =>
            (in_progress = 1 /\ pc = "process" /\ in_progress' = 0)]_vars

\* A second cycle is in progress after the first one returned.
C8_Witness ==
    /\ in_progress = 1
    /\ pc = "process"
    /\ indexed_events = <<3>>

\* The hashes a batch lists, as a set.
HashSet(b) == {batches[b].play_hashes[i] : i \in 1..Len(batches[b].play_hashes)}

\* total_amount summed over the batches b..Len(batches) created for an artist.
RECURSIVE BatchTotal(_, _)
BatchTotal(artist, b) ==
    IF b > Len(batches) THEN <<>>
    ELSE Add(IF batches[b].artist = artist THEN batches[b].total_amount ELSE <<>>,
             BatchTotal(artist, b + 1))

\* amount_owed summed over the plays p..Len(plays) recorded for an artist.
RECURSIVE OwedTotal(_, _)
OwedTotal(artist, p) ==
    IF p > Len(plays) THEN <<>>
    ELSE Add(IF plays[p].artist = artist THEN plays[p].amount_owed ELSE <<>>,
             OwedTotal(artist, p + 1))

\* C9: no play is listed by two settlement batches, and the batches of an
\* artist never total more than the plays recorded for that artist owe.
C9_NoPlayInTwoBatches ==
    /\ \A b1, b2 \in 1..Len(batches) :
          b1 # b2 => HashSet(b1) \cap HashSet(b2) = {}
    /\ \A artist \in Artists : Leq(BatchTotal(artist, 1), OwedTotal(artist, 1))

\* amount_owed summed over the plays hashes[i..].
RECURSIVE OwedOver(_, _)
OwedOver(hashes, i) ==
    IF i > Len(hashes) THEN <<>>
    ELSE Add(plays[hashes[i]].amount_owed, OwedOver(hashes, i + 1))

C11_BatchMarksItsPlays ==
    \A b \in 1..Len(batches) :
        /\ batches[b].status = "Pending"
        /\ batches[b].tx_hash = 0
        /\ \A h \in HashSet(b) :
              /\ <<h, b>> \in play_to_settlement
              /\ ~plays[h].settled
              /\ \A i \in 1..Len(ArtistPlays(batches[b].artist)) :
                    ArtistPlays(batches[b].artist)[i] # h

\* The batches that list play h.
BatchesOf(h) == {b \in 1..Len(batches) : h \in HashSet(b)}

\* C12: settled is never true for a play of a Pending, Submitted or Failed
\* batch and is true for every play of a Confirmed batch; it changes only
\* from false to true, and only in a step that takes a batch listing the
\* play from Submitted to Confirmed.
C12_SettledAtConfirmation ==
    /\ [](\A b \in 1..Len(batches) : \A h \in HashSet(b) :
             plays[h].settled <=> batches[b].status = "Confirmed")
    /\ [][\A h \in 1..Len(plays) :
             plays'[h].settled # plays[h].settled =>
                 /\ ~plays[h].settled
                 /\ \E b \in BatchesOf(h) :
                       /\ batches[b].status = "Submitted"
                       /\ batches'[b].status = "Confirmed"]_vars

\* The edges of the status of a batch.
StatusEdges ==
    { <<"Pending", "Submitted">>, <<"Submitted", "Confirmed">>,
      <<"Submitted", "Failed">>, <<"Failed", "Submitted">> }

\* C13: a batch enters as Pending, its status moves along StatusEdges only,
\* and a Confirmed batch never changes again.
C13_StatusEdges ==
    [][/\ Len(batches') >= Len(batches)
       /\ \A b \in 1..Len(batches') :
             IF b > Len(batches)
             THEN batches'[b].status = "Pending"
             ELSE /\ \/ batches'[b].status = batches[b].status
                     \/ <<batches[b].status, batches'[b].status>> \in StatusEdges
                  /\ batches[b].status = "Confirmed" => batches'[b] = batches[b]]_vars

\* A batch confirmed after a resubmission, beside a batch that failed.
C13_Witness ==
    /\ Len(batches) = 2
    /\ batches[1].status = "Confirmed"
    /\ batches[2].status = "Failed"

\* C14: create_settlement_batch goes on to build a batch only for an artist
\* with unsettled plays, and the call that returns "No unsettled plays for
\* this artist" leaves the entries and the links as they were.
C14_NoPlaysNoBatch ==
    [][/\ (csb.pc = "none" /\ csb'.pc = "hashes") => ArtistPlays(csb'.artist) # <<>>
       /\ (zome_ret # ErrNoUnsettled /\ zome_ret' = ErrNoUnsettled) =>
             /\ csb' = csb
             /\ plays' = plays
             /\ batches' = batches
             /\ listener_to_plays' = listener_to_plays
             /\ artist_to_settlements' = artist_to_settlements
             /\ play_to_settlement' = play_to_settlement]_vars

\* The call for an artist without plays returned the error, while the other
\* artist has a play and no batch exists.
C14_Witness ==
    /\ zome_ret = ErrNoUnsettled
    /\ Len(plays) = 1
    /\ batches = <<>>
    /\ artist_to_settlements = {}
    /\ play_to_settlement = {}

\* hashes with the elements at i and j exchanged.
Swap(hashes, i, j) == [hashes EXCEPT ![i] = hashes[j], ![j] = hashes[i]]

\* C15: the root returned for a sequence of play hashes differs from the
\* root of the same sequence with two different hashes exchanged, and is the
\* root of any equal sequence.
C15_RootDependsOnOrder ==
    merkle_call.pc = "returned" =>
        /\ \A other \in MerkleInputs :
              other = merkle_call.hashes => compute_merkle_root(other) = merkle_call.root
        /\ \A i, j \in 1..Len(merkle_call.hashes) :
              merkle_call.hashes[i] # merkle_call.hashes[j] =>
                  compute_merkle_root(Swap(merkle_call.hashes, i, j)) # merkle_call.root

\* The root of four hashes, the first two different.
C15_Witness ==
    /\ merkle_call.pc = "returned"
    /\ merkle_call.hashes = <<1, 2, 3, 3>>
    /\ merkle_call.root # ZeroRoot

\* The multiplier the pricing rule names for a strategy, in tenths.
RuleTenths(strategy_id) ==
    CASE strategy_id = "premium" -> 20
      [] strategy_id = "patronage" -> 15
      [] strategy_id = "gift" -> 0
      [] OTHER -> 10

\* The pricing rule in exact arithmetic: 0 under 30 s and under half the
\* song, else base rate * min(listened / duration, 1) * multiplier,
\* truncated to a whole wei.
RulePrice(input) ==
    LET d == input.duration_listened
        s == input.song_duration
    IN  IF s = 0 \/ (d < 30 /\ 2 * d < s)
        THEN <<>>
        ELSE DivSmall(MulSmall(MulSmall(BaseRate, Min(d, s)), RuleTenths(input.strategy_id)),
                      10 * s)

\* C16: the amount calculate_play_amount returns is the price of the pricing
\* rule: 0 for 29 s of 60 s, base rate * 0.5 * multiplier for 30 s of 60 s.
C16_PriceIsTruncatedProduct ==
    price_call.pc \in {"priced", "returned"} =>
        price_call.amount_owed = RulePrice(price_call.input)

\* C17: a gift play is priced 0, a full play under patronage 1.5 times the
\* base rate, a play under a strategy id the match does not list as under
\* pay_per_stream (1.0), and no record_play is rejected for its strategy id.
C17_MultiplierIsTotal ==
    price_call.pc \in {"priced", "returned"} =>
        LET input == price_call.input
            full == input.song_duration > 0
                    /\ input.duration_listened = input.song_duration
        IN  /\ input.strategy_id = "gift" => price_call.amount_owed = <<>>
            /\ (full /\ input.strategy_id = "patronage") =>
                   price_call.amount_owed = <<0, 0, 0, 600>>
            /\ input.strategy_id = "subscription" =>
                   /\ price_call.amount_owed =
                          calculate_play_amount("pay_per_stream",
                              input.duration_listened, input.song_duration)
                   /\ full => price_call.amount_owed = <<0, 0, 0, 400>>
            /\ (price_call.pc = "returned"
                /\ input.duration_listened <= input.song_duration) =>
                   zome_ret = "ok"

\* A full play under a strategy id the match does not list was recorded.
C17_Witness ==
    /\ price_call.pc = "returned"
    /\ price_call.input.strategy_id = "subscription"
    /\ price_call.input.duration_listened = 60
    /\ price_call.input.song_duration = 60
    /\ Len(plays) = 1
    /\ plays[1].amount_owed = <<0, 0, 0, 400>>

\* C18: every play on the chain has duration_listened <= song_duration,
\* settled = false and no settlement hash; a record_play call with
\* duration_listened above song_duration returns the error and leaves no
\* entry and no link, any other call leaves its play.
C18_PlayWithinSong ==
    /\ \A h \in 1..Len(plays) :
          /\ plays[h].duration_listened <= plays[h].song_duration
          /\ ~plays[h].settled
          /\ plays[h].settlement_hash = 0
    /\ price_call.pc = "returned" =>
          IF price_call.input.duration_listened > price_call.input.song_duration
          THEN /\ zome_ret = ErrDuration
               /\ plays = <<>>
               /\ listener_to_plays = <<>>
          ELSE /\ Len(plays) = 1
               /\ plays[1].duration_listened = price_call.input.duration_listened
               /\ plays[1].song_duration = price_call.input.song_duration

\* A call with 61 s listened of a song of 60 s was rejected.
C18_Witness ==
    /\ price_call.pc = "returned"
    /\ price_call.input.duration_listened = 61
    /\ price_call.input.song_duration = 60
    /\ zome_ret = ErrDuration
    /\ plays = <<>>

\* C19: every version of a reputation written for a report has uptime_bps
\* equal to successful_requests * 10000 / (successful_requests +
\* failed_requests), truncated; 10000 after successful reports only.
C19_UptimeBasisPoints ==
    \A h \in 1..Len(reputation_entries) :
        LET rep == reputation_entries[h]
            total == rep.successful_requests + rep.failed_requests
        IN  total > 0 => rep.uptime_bps = (rep.successful_requests * 10000) \div total

\* C20: the version a successful report writes has successful_requests one
\* higher and avg_latency_ms = (avg * (n - 1) + latency) / n, n the new total
\* of successful and failed requests; the version a failed report writes has
\* failed_requests one higher and the avg_latency_ms it read.
C20_RollingLatency ==
    [][\A reporter \in Reporters :
          (sqr[reporter].pc = "update" /\ sqr'[reporter].pc = "idle") =>
              LET call == sqr[reporter]
                  old == reputation_entries[call.action_hash]
                  new == reputation_entries'[Len(reputation_entries')]
                  n == new.successful_requests + new.failed_requests
              IN  /\ Len(reputation_entries') = Len(reputation_entries) + 1
                  /\ IF call.success
                     THEN /\ new.successful_requests = old.successful_requests + 1
                          /\ new.failed_requests = old.failed_requests
                          /\ new.avg_latency_ms * n <= old.avg_latency_ms * (n - 1) + call.latency_ms
                          /\ old.avg_latency_ms * (n - 1) + call.latency_ms < (new.avg_latency_ms + 1) * n
                     ELSE /\ new.failed_requests = old.failed_requests + 1
                          /\ new.successful_requests = old.successful_requests
                          /\ new.avg_latency_ms = old.avg_latency_ms]_vars

\* A successful report of 300 ms after a failed one: the failed report left
\* the average at 0, the successful one made it (0 * 1 + 300) / 2.
C20_Witness ==
    \E h \in 1..Len(reputation_entries) :
        /\ reputation_entries[h].successful_requests = 1
        /\ reputation_entries[h].failed_requests = 1
        /\ reputation_entries[h].avg_latency_ms = 150

\* C21: the score of a node is its uptime (in thousandths) times 1.0 below
\* 100 ms of average latency, 0.8 below 500 ms and 0.5 otherwise. Among the
\* inputs with the same uptime_bps no higher latency has a higher score, and
\* among the inputs of the same latency bucket no higher uptime_bps has a
\* lower score.
LatencyBucket(avg_latency_ms) ==
    IF avg_latency_ms < 100 THEN 1 ELSE IF avg_latency_ms < 500 THEN 2 ELSE 3

UptimeOf(input) ==
    uptime(input.successful_requests, input.successful_requests + input.failed_requests)

C21_ScoreMonotone ==
    score_call.pc = "returned" =>
        LET avg_latency_ms == score_call.input.avg_latency_ms
        IN  /\ score_call.pogq_score =
                   score_call.uptime_bps * (CASE LatencyBucket(avg_latency_ms) = 1 -> 10
                                              [] LatencyBucket(avg_latency_ms) = 2 -> 8
                                              [] OTHER -> 5)
            /\ \A other \in ScoreInputs :
                   LET score == pogq_score(UptimeOf(other), other.avg_latency_ms)
                   IN  /\ (/\ UptimeOf(other) = score_call.uptime_bps
                           /\ other.avg_latency_ms >= avg_latency_ms)
                          => score <= score_call.pogq_score
                       /\ (/\ LatencyBucket(other.avg_latency_ms) = LatencyBucket(avg_latency_ms)
                           /\ UptimeOf(other) >= score_call.uptime_bps)
                          => score >= score_call.pogq_score

\* A node with two successes in three requests and an average latency of
\* 100 ms: uptime_bps 666, score 0.5328.
C21_Witness ==
    /\ score_call.pc = "returned"
    /\ score_call.input = [successful_requests |-> 2, failed_requests |-> 1,
                           avg_latency_ms |-> 100]
    /\ score_call.uptime_bps = 666
    /\ score_call.pogq_score = 5328
\* C22: every submit_quality_report call that updates a node's reputation
\* makes successful_requests + failed_requests of the node's latest record
\* one more than it was just before, whatever other calls are in flight, and
\* leaves the latest record of every other node as it was.
TotalRequests(entries, links, node) ==
    LET rep == entries[links[node][Len(links[node])]]
    IN  rep.successful_requests + rep.failed_requests

C22_NoLostReport ==
    [][\A reporter \in Reporters :
          (sqr[reporter].pc = "update" /\ sqr'[reporter].pc = "idle") =>
              /\ TotalRequests(reputation_entries', node_to_reputation', sqr[reporter].node)
                     = TotalRequests(reputation_entries, node_to_reputation, sqr[reporter].node) + 1
              /\ \A node \in CdnNodes \ {sqr[reporter].node} :
                     node_to_reputation'[node] = node_to_reputation[node]]_vars
\* C23: the latest VerificationStatus of every agent that has one counts the
\* claims on the agent that were created and not revoked since: vouch_count
\* is their number and trust_score the integer mean of their confidence_bps,
\* 0 without any.
Revoked(claim_hash) ==
    \E k \in 1..Len(trust_claims) :
        /\ trust_claims[k].original_action_address = claim_hash
        /\ ~trust_claims[k].active

ActiveClaimsOn(subject) ==
    {h \in 1..Len(trust_claims) :
        /\ trust_claims[h].original_action_address = 0
        /\ trust_claims[h].to = subject
        /\ ~Revoked(h)}

RECURSIVE SumOfConfidence(_)
SumOfConfidence(hashes) ==
    IF hashes = {} THEN 0
    ELSE LET h == CHOOSE x \in hashes : TRUE
         IN  trust_claims[h].confidence_bps + SumOfConfidence(hashes \ {h})

LatestStatus(subject) ==
    verification_entries[agent_to_verification[subject][Len(agent_to_verification[subject])]]

C23_StatusCountsActiveClaims ==
    \A subject \in Agents :
        agent_to_verification[subject] # <<>> =>
            LET active == ActiveClaimsOn(subject)
            IN  /\ LatestStatus(subject).vouch_count = Cardinality(active)
                /\ LatestStatus(subject).trust_score =
                       IF active = {} THEN 0
                       ELSE SumOfConfidence(active) \div Cardinality(active)

\* C24: the tier is Trusted exactly with at least 10 vouches and a score of
\* at least 800, otherwise CommunityVerified exactly with at least 3 vouches,
\* otherwise Unverified; two claims at 1000 score 1000 and are Unverified, a
\* third at 100 makes the score 700 and the tier CommunityVerified.
C24_TierRule ==
    tier_call.pc = "returned" =>
        LET status == tier_call.status
        IN  /\ status.vouch_count = Len(tier_call.confidences)
            /\ status.tier = "Trusted" <=>
                   (status.vouch_count >= 10 /\ status.trust_score >= 800)
            /\ status.tier = "CommunityVerified" <=>
                   (/\ ~(status.vouch_count >= 10 /\ status.trust_score >= 800)
                    /\ status.vouch_count >= 3)
            /\ status.tier = "Unverified" <=> status.vouch_count < 3
            /\ tier_call.confidences = <<1000, 1000>> =>
                   status.trust_score = 1000 /\ status.tier = "Unverified"
            /\ tier_call.confidences = <<1000, 1000, 100>> =>
                   status.trust_score = 700 /\ status.tier = "CommunityVerified"

\* Ten claims at 100 and one at 1000: eleven vouches with a score of 181.
C24_Witness ==
    /\ tier_call.pc = "returned"
    /\ tier_call.confidences = Repeat(100, 10) \o <<1000>>
    /\ tier_call.status.trust_score = 181
    /\ tier_call.status.tier = "CommunityVerified"

\* C25: a create_trust_claim call for the caller itself or with a
\* confidence_bps above 1000 fails and commits no claim, no link and no
\* VerificationStatus; every committed claim is from one agent to another
\* with confidence_bps in 0..1000, and every trust_score is at most 1000.
ClaimStore == <<trust_claims, claims_received, verification_entries, agent_to_verification>>

C25_InvalidClaimRejected ==
    [][/\ (/\ claim_call'.call.fn = "create_trust_claim"
           /\ \/ claim_call'.call.to = claim_call'.call.agent
              \/ claim_call'.call.confidence_bps > 1000)
          => /\ claim_call'.result # "ok"
             /\ ClaimStore' = ClaimStore
       /\ \A h \in 1..Len(trust_claims') :
              /\ trust_claims'[h].from # trust_claims'[h].to
              /\ trust_claims'[h].confidence_bps \in 0..1000
       /\ \A k \in 1..Len(verification_entries') :
              verification_entries'[k].trust_score <= 1000]_vars

\* bob vouches for alice; then alice's claim for herself is rejected.
C25_Witness ==
    /\ claim_call.call.fn = "create_trust_claim"
    /\ claim_call.call.agent = "alice"
    /\ claim_call.call.to = "alice"
    /\ claim_call.result = "Cannot create trust claim for self"
    /\ Len(trust_claims) = 1
    /\ Len(claims_received["alice"]) = 1
    /\ Len(verification_entries) = 1

\* C26: after revoke_trust_claim by the agent that made the claim the record
\* read at claim_hash has active = false and no record is gone; the call of
\* any other agent fails and leaves the claims, the links and the
\* VerificationStatus entries as they were.
C26_RevokeByAuthorOnly ==
    [][(/\ claim_call'.call.fn = "revoke_trust_claim"
        /\ claim_call'.call.claim_hash <= Len(trust_claims))
          => LET claim_hash == claim_call'.call.claim_hash
             IN  IF trust_claims[claim_hash].from = claim_call'.call.agent
                 THEN /\ claim_call'.result = "ok"
                      /\ Len(trust_claims') >= Len(trust_claims)
                      /\ ~trust_claims'[claim_hash].active
                 ELSE /\ claim_call'.result # "ok"
                      /\ ClaimStore' = ClaimStore]_vars
\* C27: a cycle that does work takes the window from last_indexed_block + 1
\* to min(safe, last_indexed_block + 1 + MAX_WINDOW), safe = height -
\* confirmations, and fetches the logs of exactly these blocks; a cycle that
\* reads a height with safe <= last_indexed_block returns 0 and changes
\* nothing; and the window of every cycle that returns Ok starts right after
\* the window of the successful cycle before it (after StartBlock for the
\* first one).
C27_WindowsContiguous ==
    [][/\ (pc = "idle" /\ pc' = "get_logs") =>
              /\ height' - Confirmations > last_indexed_block
              /\ from_block' = last_indexed_block + 1
              /\ to_block' = Min(height' - Confirmations,
                                 last_indexed_block + 1 + MAX_WINDOW)
       /\ (pc = "get_logs" /\ pc' = "process") =>
              {logs'[i] : i \in 1..Len(logs')} =
                  {l \in ChainLogs : l.block_number \in from_block..to_block}
       /\ (/\ pc = "idle" /\ pc' # "crashed" /\ ~rpc_failed'
           /\ SaturatingSub(height', Confirmations) <= last_indexed_block) =>
              /\ ret' = Ok(0)
              /\ pc' = "idle"
              /\ UNCHANGED <<last_indexed_block, indexed_events, payments, songs>>
       /\ (pc = "process" /\ pc' = "idle" /\ ret'.ok) =>
              from_block = MaxCheckpoint(indexed_events) + 1]_vars

\* C28: the window of a cycle never holds more blocks than the cap.
C28_WindowAtMostCap ==
    pc \in {"get_logs", "process"} => to_block - from_block + 1 <= MAX_WINDOW

\* C29: processing a PaymentProcessed log with fewer than three topics or
\* less than 64 bytes of data persists no payment row.
C29_MalformedPaymentSkipped ==
    [][(/\ pc = "process" /\ pc' = "process" /\ logs # <<>>
        /\ Head(logs).topic0 = PAYMENT_PROCESSED
        /\ (Head(logs).topics < 3 \/ Head(logs).data_len < 64))
          => payments' = payments]_vars

\* C30: processing a log without topics or with an unknown topic-0 changes
\* no table and not the count, and raises no error; only a recognised log is
\* counted, every log that changed a table is counted, and a cycle returns
\* the count it reached, at most the number of recognised logs of its window.
C30_UnknownLogIgnored ==
    [][/\ (pc = "process" /\ pc' = "process" /\ logs # <<>>) =>
              IF Head(logs) \in Recognised
              THEN /\ event_count' \in {event_count, event_count + 1}
                   /\ (payments' # payments \/ songs' # songs) =>
                          event_count' = event_count + 1
              ELSE /\ UNCHANGED <<payments, songs, indexed_events, last_indexed_block,
                                  event_count, rpc_failed>>
                   /\ logs' = Tail(logs)
       /\ (pc = "process" /\ pc' = "idle" /\ ret'.ok) =>
              /\ ret'.count = event_count
              /\ ret'.count <= Cardinality({l \in Recognised :
                                    l.block_number \in from_block..to_block})]_vars

\* The window 3..3, which holds the log of an unknown event and the log
\* without topics, has been processed and nothing was counted.
C30_Witness ==
    /\ pc = "process"
    /\ from_block = 3
    /\ to_block = 3
    /\ logs = <<>>
    /\ event_count = 0
    /\ last_indexed_block = 2
\* C31: a restarted indexer starts from the highest checkpoint persisted, or
\* from the configured start block when none is persisted: never below a
\* persisted checkpoint.
C31_ResumeFromCheckpoint ==
    [][(pc = "crashed" /\ pc' = "idle") =>
          /\ last_indexed_block' = MaxCheckpoint(indexed_events)
          /\ \A i \in 1..Len(indexed_events) : indexed_events[i] <= last_indexed_block']_vars

\* C32: the persisted checkpoint is never above the in-memory
\* last_indexed_block of the running task, and they are equal whenever a
\* cycle has returned.
C32_CheckpointAgrees ==
    /\ pc # "crashed" => MaxCheckpoint(indexed_events) <= last_indexed_block
    /\ (pc = "idle" /\ ret # NoResult) =>
           last_indexed_block = MaxCheckpoint(indexed_events)
\* C33: the root of no hashes is the all-zero sentinel; the root of one or
\* more hashes is an output of the hash function, the top of the binary tree
\* whose levels hash adjacent pairs, a last single element with itself.
Leaf(h) == <<"raw39", h>>

C33_MerkleTree ==
    merkle_call.pc = "returned" =>
        LET hashes == merkle_call.hashes
            root == merkle_call.root
            H(l, r) == <<"keccak256", l, r>>
        IN  /\ hashes = <<>> => root = <<"zero32">>
            /\ hashes # <<>> => root[1] = "keccak256"
            /\ Len(hashes) = 2 => root = H(Leaf(hashes[1]), Leaf(hashes[2]))
            /\ Len(hashes) = 3 =>
                   root = H(H(Leaf(hashes[1]), Leaf(hashes[2])),
                            H(Leaf(hashes[3]), Leaf(hashes[3])))
            /\ Len(hashes) = 4 =>
                   root = H(H(Leaf(hashes[1]), Leaf(hashes[2])),
                            H(Leaf(hashes[3]), Leaf(hashes[4])))

\* C34: no other non-empty sequence of hashes has the root of the sequence
\* of the call.
C34_RootCommitsToSequence ==
    (merkle_call.pc = "returned" /\ merkle_call.hashes # <<>>) =>
        \A other \in MerkleInputs \ {<<>>} :
            other # merkle_call.hashes => compute_merkle_root(other) # merkle_call.root
\* C35: the amount owed is a whole number of wei, at most the base rate
\* times the multiplier of the strategy (800, 600, 0 or 400 * 10^12) and
\* below 2^64, whatever part of the song was listened to, and it is 0 for a
\* song_duration of 0.
C35_AmountBounded ==
    price_call.pc \in {"priced", "returned"} =>
        /\ Leq(price_call.amount_owed,
               DivSmall(MulSmall(BaseRate, RuleTenths(price_call.input.strategy_id)), 10))
        /\ Less(price_call.amount_owed, Pow2(64))
        /\ price_call.input.song_duration = 0 => price_call.amount_owed = <<>>

\* 61 s of a song of 10 s under premium: completion is capped and the amount
\* is twice the base rate.
C35_Witness ==
    /\ price_call.pc = "priced"
    /\ price_call.input.strategy_id = "premium"
    /\ price_call.input.duration_listened = 61
    /\ price_call.input.song_duration = 10
    /\ price_call.amount_owed = <<0, 0, 0, 800>>
\* C36: a SettlementBatch entry is committed exactly when its play_count is
\* at least 1 and equal to the number of its play_hashes and its status is
\* Pending; any other entry fails the call and is not committed.
C36_BatchAcceptedOnlyIfValid ==
    batch_call.pc = "returned" =>
        LET batch == batch_call.batch
            valid == /\ batch.play_count >= 1
                     /\ batch.play_count = Len(batch.play_hashes)
                     /\ batch.status = "Pending"
        IN  /\ batch_call.result = "ok" <=> valid
            /\ batches = IF valid THEN <<batch>> ELSE <<>>

\* An entry of status Pending with play_count 2 and one play hash was rejected.
C36_Witness ==
    /\ batch_call.pc = "returned"
    /\ batch_call.batch.play_count = 2
    /\ batch_call.batch.play_hashes = <<1>>
    /\ batch_call.batch.status = "Pending"
    /\ batch_call.result = "Invalid"
    /\ batches = <<>>
\* C37: a report on a node without a reputation record is stored and the
\* call returns Ok with every reputation record and link as before; the
\* update of a report on a registered node appends exactly one reputation
\* version, which is the one get_cdn_reputation returns afterwards.
C37_ReportAppendsOneVersion ==
    [][/\ (/\ Len(quality_reports') = Len(quality_reports) + 1
           /\ node_to_reputation[quality_reports'[Len(quality_reports')].node] = <<>>)
          => LET reporter == quality_reports'[Len(quality_reports')].reporter
             IN  /\ UNCHANGED <<reputation_entries, node_to_reputation>>
                 /\ sqr_ret'[reporter] = "ok"
                 /\ sqr'[reporter].pc = "idle"
       /\ \A reporter \in Reporters :
             (sqr[reporter].pc = "update" /\ sqr'[reporter].pc = "idle") =>
                 /\ Len(reputation_entries') = Len(reputation_entries) + 1
                 /\ SubSeq(reputation_entries', 1, Len(reputation_entries)) = reputation_entries
                 /\ \A node \in DOMAIN node_to_reputation :
                        sqr[reporter].node = node =>
                            get_cdn_reputation(node)' =
                                reputation_entries'[Len(reputation_entries')]
                 /\ sqr_ret'[reporter] = "ok"]_vars

\* A report on node2, which never registered, and a report on the registered
\* node1, whose reputation has its second version.
C37_Witness ==
    /\ Len(quality_reports) = 2
    /\ quality_reports[1].node = "node2"
    /\ node_to_reputation["node2"] = <<>>
    /\ Len(node_to_reputation["node1"]) = 2
    /\ Len(reputation_entries) = 2
    /\ \A reporter \in Reporters : sqr[reporter].pc = "idle"
\* C38: an execute_transfer whose amount exceeds the balance of the sender's
\* listener account returns Insufficient balance and leaves the listener
\* accounts, the artist accounts and the transfers as they were; no listener
\* balance is ever below zero.
C38_InsufficientBalanceRejected ==
    [][(/\ balance_call'.call.fn = "execute_transfer"
        /\ balance_call'.call.from # balance_call'.call.to
        /\ listener_accounts[balance_call'.call.from] # <<>>
        /\ balance_call'.call.amount > listener_accounts[balance_call'.call.from][1].balance)
       => /\ balance_call'.result = "Insufficient balance"
          /\ UNCHANGED <<listener_accounts, artist_accounts, transfers>>
          /\ \A agent \in Agents :
                listener_accounts'[agent] # <<>> => listener_accounts'[agent][1].balance >= 0]_vars

TotalEarned ==
    LET Sum[A \in SUBSET Agents] ==
            IF A = {} THEN 0
            ELSE LET agent == CHOOSE a \in A : TRUE
                 IN  (IF artist_accounts[agent] = <<>> THEN 0
                      ELSE artist_accounts[agent][1].total_earned) + Sum[A \ {agent}]
    IN  Sum[Agents]

TotalSpent ==
    LET Sum[A \in SUBSET Agents] ==
            IF A = {} THEN 0
            ELSE LET agent == CHOOSE a \in A : TRUE
                 IN  (IF listener_accounts[agent] = <<>> THEN 0
                      ELSE listener_accounts[agent][1].total_spent) + Sum[A \ {agent}]
    IN  Sum[Agents]

\* C39: an execute_transfer that raises the pending_balance of the recipient's
\* artist account by an amount lowers the balance of the sender's listener
\* account by the same amount in the same step; at every moment the
\* total_earned of all artists equals the total_spent of all listeners, and
\* balance = total_deposited - total_spent for every listener account.
C39_TransferConservesValue ==
    /\ [](/\ TotalEarned = TotalSpent
          /\ \A agent \in Agents :
                listener_accounts[agent] # <<>> =>
                    listener_accounts[agent][1].balance =
                        listener_accounts[agent][1].total_deposited
                            - listener_accounts[agent][1].total_spent)
    /\ [][\A to \in Agents :
            (/\ artist_accounts[to] # <<>>
             /\ artist_accounts'[to][1].pending_balance > artist_accounts[to][1].pending_balance)
            => LET from == balance_call'.call.from
                   credited == artist_accounts'[to][1].pending_balance
                                   - artist_accounts[to][1].pending_balance
               IN  /\ balance_call'.call.fn = "execute_transfer"
                   /\ listener_accounts[from] # <<>>
                   /\ listener_accounts'[from][1].balance =
                          listener_accounts[from][1].balance - credited]_vars
====
